---- MODULE Spec2Model ----
(***************************************************************************)
(* A model of the curta arithmetisation toolkit: limb conversion, the      *)
(* root-quotient witness, the field-addition instruction, the AIR builder, *)
(* the log-derivative lookup argument and the Edwards scalar-mul gadget.   *)
(*                                                                         *)
(* TLC works on 32-bit integers, so the widths of the program are scaled:  *)
(* a limb has LimbBits bits (16 in the program), a u32 digit two limbs, a  *)
(* field element NB_LIMBS limbs (16 in the program) and the native field   *)
(* is a small prime field (Goldilocks in the program).  Every algorithm is *)
(* written against these names exactly as the source is against its own.   *)
(***************************************************************************)
EXTENDS Integers, Sequences, FiniteSets, TLC

VARIABLES
    \* --- limb conversion (starky/src/curta/utils.rs) ---
    lim_x,          \* the big integer handed to bigint_into_u16_digits
    lim_n,          \* num_digits
    lim_out,        \* what bigint_into_u16_digits returned ([ok, limbs])
    lim_back,       \* what digits_to_biguint returned on those limbs
    lim_pc,         \* "start" | "converted" | "panicked" | "done"
    \* --- root quotient (starky/src/curta/utils.rs) ---
    rq_v,           \* p_vanishing: coefficients, field elements
    rq_offset,      \* offset
    rq_debug,       \* TRUE: debug assertions compiled in
    rq_out,         \* [ok, witness]: the returned shifted vector, or a panic
    rq_pc,          \* "start" | "returned" | "panicked"
    \* --- FpAddInstruction on one trace row (curta/src/chip/field/add.rs) ---
    fp_modulus,     \* P::modulus()
    fp_a, fp_b,     \* the integers the test wrote into registers a and b
    fp_row,         \* the trace row: a sequence of field elements
    fp_debug,       \* TRUE: debug assertions compiled in
    fp_vanishing,   \* p_vanishing as computed by write
    fp_quotient,    \* the root quotient of write, before the offset is added
    fp_values,      \* the values write passed to write_unsafe_batch_raw
    fp_pc,          \* "start" | "written" | "panicked"
    \* --- AirBuilder (starkyx/src/chip/builder/mod.rs) ---
    NUM_ARITHMETIC_COLUMNS, \* L::NUM_ARITHMETIC_COLUMNS
    NUM_FREE_COLUMNS,       \* L::NUM_FREE_COLUMNS
    EXTENDED_COLUMNS,       \* L::EXTENDED_COLUMNS
    local_index,            \* cursor of the free columns
    local_arithmetic_index, \* cursor of the arithmetic columns
    extended_index,         \* cursor of the extended columns
    internal_range_check,   \* whether build() adds the range checks
    global_arithmetic,      \* number of global arithmetic registers
    instructions,           \* number of registered instructions
    constraints,            \* number of registered constraints
    b_warnings,             \* the warnings build() printed
    b_panic,                \* the panic message of build(), or NoPanic
    b_chip,                 \* the Chip build() returned, or NoChip
    b_registers,            \* the registers the caller holds, by kind, in call order
    b_pc,                   \* "building" | "built" | "panicked"
    \* --- log-derivative lookup (curta/src/chip/table/lookup/log_der) ---
    lk_beta,        \* the challenge, an element of the cubic extension
    lk_trace,       \* the trace: one record of columns per row
    lk_public,      \* the public slice: the values of the public_values registers
    lk_digests,     \* the digest cells: table, local and values
    lk_forged,      \* the cell a prover changed: [row, register, value]
    lk_pc,          \* "start" | "multiplicities" | "table" | "values" |
                    \* "satisfied" | "unsatisfied" | "forged" | "panicked"
    \* --- Edwards scalar mul (curta/src/chip/ec/edwards/scalar_mul/gadget.rs) ---
    sm_trace,       \* the trace: one record of registers per row (from 0)
    sm_worker,      \* per cycle, the worker writing it: [pc, point, scalar, bits, i]
    sm_writers,     \* per row, the workers that wrote its result and temp cells
    \* --- AddModStark (starky/src/arithmetic/add.rs) ---
    am_row,         \* vars.local_values: the row of one addition
    am_packed,      \* the constraints eval_packed_generic yielded
    am_circuit,     \* the constraints eval_ext_circuit yielded
    am_pc,          \* "start" | "packed" | "circuit" | "both"
    \* --- constraint evaluation (curta/src/chip/constraint) ---
    ex_constraint,  \* the constraint: [kind, expression]
    ex_row,         \* the row values the parser reads
    ex_out,         \* what each evaluation so far returned: [ok, values, constraints]
    \* --- EmulatedStark::generate_trace (starkyx/src/machine/emulated/stark.rs) ---
    gt_input,       \* the arguments: [execution_trace, public_values, num_challenges]
    gt_challenger,  \* the challenger: [observed, challenges]
    gt_commitment,  \* the caps of the two execution commitments: [main, lookup]
    gt_writer,      \* the two TraceWriters: [main, lookup]
    gt_pc,          \* the statement generate_trace executes next
    \* --- FpQuad::trace_row (starky/src/arithmetic/field/quad.rs) ---
    fq_modulus,     \* P::modulus_biguint()
    fq_in,          \* the arguments <<a, b, c, d>>
    fq_out,         \* what trace_row computed, or FqNone
    \* --- Edwards point addition (starky/src/arithmetic/ec/edwards/add.rs) ---
    ea_P,           \* the first operand, a PointBigint
    ea_Q,           \* the second operand
    ea_row,         \* the value of every register of the row, or <<>>
    ea_result,      \* the point write_ed_add returned
    ea_constraints, \* per instruction of the chip, whether its constraint holds
    ea_pc,          \* "write" | "eval" | "done"
    \* --- shift right (curta/src/chip/uint/bytes/bit_operations/shr.rs) ---
    sh_a,           \* the bits of a, little-endian
    sh_b,           \* the bits of the shift amount b, little-endian
    sh_out,         \* what set_shr and the writer produced: [ok, result], or ShNone
    \* --- MulCubicGate (starkyx/src/plonky2/cubic/mul_gate.rs) ---
    mg_num_ops,     \* the multiplications of the gate
    mg_const,       \* local_constants[0]
    mg_wires,       \* local_wires of the gate's row
    mg_generated,   \* the operations whose generator has run
    mg_out,         \* the constraints of each evaluator: [unfiltered, base_one, circuit]
    \* --- biguint_to_bits_le (starky/src/curta/utils.rs) ---
    bl_integer,     \* the argument integer
    bl_num_bits,    \* the argument num_bits
    bl_debug,       \* whether debug assertions are compiled in
    bl_out,         \* [ok, bits], or BlNone before the call
    \* --- EmulatedStark prove and verify (starkyx/src/machine/emulated/stark.rs) ---
    es_input,       \* the arguments: [execution_trace, public_values, num_challenges]
    es_challenger,  \* what each challenger was fed: [prover, native, recursive]
    es_commitment,  \* the AirCommitments of generate_trace: [main, lookup], or EsNone
    es_proof,       \* the EmulatedStarkProof, or EsNone
    es_pc,          \* "start" | "committed" | "main_proved" | "proved"
    \* --- BaseSumGate and BaseSplitGenerator (src/gates/base_sum.rs) ---
    bs_B,           \* B, the base of the gate
    bs_num_limbs,   \* num_limbs
    bs_wires,       \* the wires of the gate's row, BsUnset where no value is set
    bs_out,         \* the constraints eval_unfiltered returned, or BsNone
    \* --- ArithmeticStark::generate_trace (starky/src/arithmetic/arithmetic_stark.rs) ---
    ar_program,     \* program, the operations, indexed from 0
    ar_spawned,     \* the number of workers generate_trace has spawned
    ar_worker,      \* each worker: "unspawned" | "running" | "sent" | "exited"
    ar_channel,     \* the (index, row) messages sent and not yet received
    ar_trace_rows,  \* trace_rows
    ar_trace_cols,  \* trace_cols, or ArNone before the transposition
    ar_pc,          \* "spawning" | "receiving" | "done"
    \* --- AirBuilder::bytes_lookup (curta/src/chip/uint/bytes/operations.rs) ---
    by_index,       \* the builder's cursors: [local, challenge, extended]
    by_lookup,      \* the fields of the ByteLookup allocated so far, ByNone where not yet
    by_pc           \* the statement bytes_lookup executes next

limVars == <<lim_x, lim_n, lim_out, lim_back, lim_pc>>
rqVars == <<rq_v, rq_offset, rq_debug, rq_out, rq_pc>>
fpVars == <<fp_modulus, fp_a, fp_b, fp_row, fp_debug, fp_vanishing, fp_quotient, fp_values,
           fp_pc>>
bVars == <<NUM_ARITHMETIC_COLUMNS, NUM_FREE_COLUMNS, EXTENDED_COLUMNS, local_index,
           local_arithmetic_index, extended_index, internal_range_check, global_arithmetic,
           instructions, constraints, b_warnings, b_panic, b_chip, b_registers, b_pc>>
lkVars == <<lk_beta, lk_trace, lk_public, lk_digests, lk_forged, lk_pc>>
smVars == <<sm_trace, sm_worker, sm_writers>>
amVars == <<am_row, am_packed, am_circuit, am_pc>>
exVars == <<ex_constraint, ex_row, ex_out>>
gtVars == <<gt_input, gt_challenger, gt_commitment, gt_writer, gt_pc>>
fqVars == <<fq_modulus, fq_in, fq_out>>
eaVars == <<ea_P, ea_Q, ea_row, ea_result, ea_constraints, ea_pc>>
shVars == <<sh_a, sh_b, sh_out>>
mgVars == <<mg_num_ops, mg_const, mg_wires, mg_generated, mg_out>>
blVars == <<bl_integer, bl_num_bits, bl_debug, bl_out>>
esVars == <<es_input, es_challenger, es_commitment, es_proof, es_pc>>
bsVars == <<bs_B, bs_num_limbs, bs_wires, bs_out>>
arVars == <<ar_program, ar_spawned, ar_worker, ar_channel, ar_trace_rows, ar_trace_cols, ar_pc>>
byVars == <<by_index, by_lookup, by_pc>>
vars == <<limVars, rqVars, fpVars, bVars, lkVars, smVars, amVars, exVars, gtVars, fqVars, eaVars,
         shVars, mgVars, blVars,
         esVars,
         bsVars,
         arVars,
         byVars>>

\* what the operations of one component leave alone
restVars == <<shVars, mgVars, blVars, esVars, bsVars, arVars, byVars>>
earlierVars == <<limVars, rqVars, fpVars, bVars, lkVars, smVars, amVars, exVars, gtVars, fqVars,
                 eaVars>>
notLimbs == <<rqVars, fpVars, bVars, lkVars, smVars, amVars, exVars, gtVars, fqVars, eaVars, restVars>>
notRootQuotient == <<limVars, fpVars, bVars, lkVars, smVars, amVars, exVars, gtVars, fqVars, eaVars, restVars>>
notFpAdd == <<limVars, rqVars, bVars, lkVars, smVars, amVars, exVars, gtVars, fqVars, eaVars, restVars>>
notBuilder == <<limVars, rqVars, fpVars, lkVars, smVars, amVars, exVars, gtVars, fqVars, eaVars, restVars>>
notLookup == <<limVars, rqVars, fpVars, bVars, smVars, amVars, exVars, gtVars, fqVars, eaVars, restVars>>
notScalarMul == <<limVars, rqVars, fpVars, bVars, lkVars, amVars, exVars, gtVars, fqVars, eaVars, restVars>>
notAddMod == <<limVars, rqVars, fpVars, bVars, lkVars, smVars, exVars, gtVars, fqVars, eaVars, restVars>>
notExpression == <<limVars, rqVars, fpVars, bVars, lkVars, smVars, amVars, gtVars, fqVars, eaVars, restVars>>
notGenerateTrace == <<limVars, rqVars, fpVars, bVars, lkVars, smVars, amVars, exVars, fqVars,
                      eaVars, restVars>>
notFpQuad == <<limVars, rqVars, fpVars, bVars, lkVars, smVars, amVars, exVars, gtVars, eaVars, restVars>>
notEdAdd == <<limVars, rqVars, fpVars, bVars, lkVars, smVars, amVars, exVars, gtVars, fqVars, restVars>>
notShr == <<earlierVars, mgVars, blVars, esVars, bsVars, arVars, byVars>>
notMulGate == <<earlierVars, shVars, blVars, esVars, bsVars, arVars, byVars>>
notBits == <<earlierVars, shVars, mgVars, esVars, bsVars, arVars, byVars>>
notStark == <<earlierVars, shVars, mgVars, blVars, bsVars, arVars, byVars>>
notBaseSum == <<earlierVars, shVars, mgVars, blVars, esVars, arVars, byVars>>
notArithmetic == <<earlierVars, shVars, mgVars, blVars, esVars, bsVars, byVars>>
notBytesLookup == <<earlierVars, shVars, mgVars, blVars, esVars, bsVars, arVars>>

----------------------------------------------------------------------------
(* Bounds of the model. *)

\* the longest bit array of a shift
ShMaxBits == 3
\* the most operations of one MulCubicGate
MgMaxOps == 2
\* the largest num_bits of a call of biguint_to_bits_le
BlMaxBits == 5
\* bits of one limb (the program's u16)
LimbBits == 2
\* limbs of one emulated field element (P::NB_LIMBS)
NB_LIMBS == 2
\* largest num_digits handed to bigint_into_u16_digits
MaxDigits == 4
\* largest |coefficient| of an arbitrary vanishing polynomial
MaxCoeff == 8
\* largest offset handed to compute_root_quotient_and_shift
MaxOffset == 2
\* largest column budget an AirParameters declares
MaxBudget == 2
\* most columns of one kind a builder run allocates
MaxColumns == 3
\* most instructions, and most constraints, a builder run registers by hand
MaxRegistered == 1
\* rows of the lookup trace, which are the entries of one table column
LkRows == 2
\* pairs of value registers the lookup reads in each row
LkPairs == 1
\* table columns of the lookup
LkTables == 1
\* most public_values registers of the lookup
LkPublic == 2
\* limbs of one operand of AddModStark (16 in the program)
N_LIMBS == 3
\* cells of the row an expression reads, and longest vector it evaluates to
ExWidth == 2
\* most public values handed to generate_trace
GtMaxPublic == 2
\* most challenges the AIR of generate_trace asks for
GtMaxChallenges == 2
\* bits of one byte (8 in the program)
ByteBits == 2
\* a cycle of the scalar-mul gadget has 2^SmCycleBits rows (2^8 in the program)
SmCycleBits == 1
\* scalar multiplications of one trace
SmCycles == 2

----------------------------------------------------------------------------
(* The native field F. *)

\* order of the native prime field (a Fermat prime standing for Goldilocks)
FieldOrder == 2^8 + 1

F == 0 .. (FieldOrder - 1)
from_canonical(x) == x % FieldOrder
from_int(x) == ((x % FieldOrder) + FieldOrder) % FieldOrder
FAdd(x, y) == (x + y) % FieldOrder
FSub(x, y) == ((x - y) + FieldOrder) % FieldOrder
FNeg(x) == (FieldOrder - x) % FieldOrder
FMul(x, y) == (x * y) % FieldOrder
\* x^e by squaring
RECURSIVE FPow(_, _)
FPow(x, e) ==
    IF e = 0 THEN 1
    ELSE IF e % 2 = 0 THEN FPow(FMul(x, x), e \div 2)
    ELSE FMul(x, FPow(FMul(x, x), e \div 2))
\* the inverse of a non-zero element: x^(p - 2)
FInverse(x) == FPow(x, FieldOrder - 2)

\* one limb holds values below Base; a u32 digit values below Base * Base
Base == 2^LimbBits
U32Base == Base * Base

\* `x as u16` on a canonical value
as_u16(x) == x % Base

RECURSIVE Pow(_, _)
Pow(b, e) == IF e = 0 THEN 1 ELSE b * Pow(b, e - 1)

----------------------------------------------------------------------------
(* Limb conversion. *)

\* BigUint::iter_u32_digits: little-endian u32 digits, none for zero
RECURSIVE iter_u32_digits(_)
iter_u32_digits(x) ==
    IF x = 0 THEN <<>> ELSE <<x % U32Base>> \o iter_u32_digits(x \div U32Base)

\* .flat_map(|x| vec![x as u16, (x >> 16) as u16])
RECURSIVE flat_map_u16(_)
flat_map_u16(ds) ==
    IF ds = <<>> THEN <<>>
    ELSE <<as_u16(Head(ds)), as_u16(Head(ds) \div Base)>> \o flat_map_u16(Tail(ds))

\* Vec::resize(n, 0)
resize(s, n) == [i \in 1 .. n |-> IF i <= Len(s) THEN s[i] ELSE 0]

Panicked == [ok |-> FALSE, limbs |-> <<>>]

\* the length test of the assertion
LimbsFit(len, num_digits) == len <= num_digits

bigint_into_u16_digits(x, num_digits) ==
    LET x_limbs == flat_map_u16(iter_u32_digits(x))
    IN  IF LimbsFit(Len(x_limbs), num_digits)
        THEN [ok |-> TRUE, limbs |-> resize(x_limbs, num_digits)]
        ELSE Panicked

RECURSIVE digits_to_biguint(_)
digits_to_biguint(digits) ==
    IF digits = <<>> THEN 0
    ELSE Head(digits) + Base * digits_to_biguint(Tail(digits))

\* biguint_to_16_digits_field: the limbs as field elements
biguint_to_16_digits_field(x, num_digits) ==
    LET r == bigint_into_u16_digits(x, num_digits)
    IN  [ok |-> r.ok, limbs |-> [i \in 1 .. Len(r.limbs) |-> from_canonical(r.limbs[i])]]

LimInit ==
    /\ lim_x \in 0 .. (Pow(Base, MaxDigits) - 1)
    /\ lim_n \in 0 .. MaxDigits
    /\ lim_out = Panicked
    /\ lim_back = 0
    /\ lim_pc = "start"

LimIdle ==
    /\ lim_x = 0 /\ lim_n = 0 /\ lim_out = Panicked /\ lim_back = 0 /\ lim_pc = "idle"

\* let x_limbs = bigint_into_u16_digits(&x, n);
LimConvert ==
    /\ lim_pc = "start"
    /\ lim_out' = bigint_into_u16_digits(lim_x, lim_n)
    /\ lim_pc' = IF lim_out'.ok THEN "converted" ELSE "panicked"
    /\ UNCHANGED <<lim_x, lim_n, lim_back, notLimbs>>

\* let x_out = digits_to_biguint(&x_limbs);
LimReconstruct ==
    /\ lim_pc = "converted"
    /\ lim_back' = digits_to_biguint(lim_out.limbs)
    /\ lim_pc' = "done"
    /\ UNCHANGED <<lim_x, lim_n, lim_out, notLimbs>>

----------------------------------------------------------------------------
(* Polynomials over F: dense coefficient sequences, lowest degree first. *)

PolyCoeff(p, i) == IF i <= Len(p) THEN p[i] ELSE 0
PolyMax(m, n) == IF m >= n THEN m ELSE n
PolyAdd(p, q) == [i \in 1 .. PolyMax(Len(p), Len(q)) |-> FAdd(PolyCoeff(p, i), PolyCoeff(q, i))]
PolySub(p, q) == [i \in 1 .. PolyMax(Len(p), Len(q)) |-> FSub(PolyCoeff(p, i), PolyCoeff(q, i))]
PolyScalarMul(p, c) == [i \in 1 .. Len(p) |-> FMul(p[i], c)]

RECURSIVE ConvSum(_, _, _, _)
ConvSum(p, q, k, i) ==
    IF i > Len(p) THEN 0
    ELSE FAdd(IF k - i + 1 >= 1 /\ k - i + 1 <= Len(q) THEN FMul(p[i], q[k - i + 1]) ELSE 0,
              ConvSum(p, q, k, i + 1))

PolyMul(p, q) ==
    IF Len(p) = 0 \/ Len(q) = 0 THEN <<>>
    ELSE [k \in 1 .. (Len(p) + Len(q) - 1) |-> ConvSum(p, q, k, 1)]

PolyDegree(p) == Len(p) - 1

RECURSIVE PolyEval(_, _)
PolyEval(p, x) == IF p = <<>> THEN 0 ELSE FAdd(Head(p), FMul(x, PolyEval(Tail(p), x)))

\* q[0] = -v[0]/root, q[i] = (q[i-1] - v[i])/root
RECURSIVE root_quotient_upto(_, _, _)
root_quotient_upto(v, r_inv, i) ==
    IF i = 1 THEN <<FMul(FNeg(v[1]), r_inv)>>
    ELSE LET prev == root_quotient_upto(v, r_inv, i - 1)
         IN  Append(prev, FMul(FSub(prev[i - 1], v[i]), r_inv))

root_quotient(v, root) ==
    IF Len(v) <= 1 THEN <<>> ELSE root_quotient_upto(v, FInverse(root), Len(v) - 1)

----------------------------------------------------------------------------
(* compute_root_quotient_and_shift and split_u32_limbs_to_u16_limbs. *)

\* the root 2^16 as a field element: F::from_canonical_u32(2u32.pow(16))
root_monomial == from_canonical(Base)

\* the vanishing polynomial at x = 2^16: sum of F(2^(16 i)) * x_i
RECURSIVE p_vanishing_eval_from(_, _)
p_vanishing_eval_from(v, i) ==
    IF i > Len(v) THEN 0
    ELSE FAdd(FMul(from_canonical(Pow(Base, i - 1)), v[i]), p_vanishing_eval_from(v, i + 1))

p_vanishing_eval(v) == p_vanishing_eval_from(v, 1)

\* Sanity Check #1: c.neg() < offset || c < offset, for every coefficient
InWindow(c, offset) == FNeg(c) < offset \/ c < offset
AllInWindow(q, offset) == \A i \in 1 .. Len(q) : InWindow(q[i], offset)

\* the polynomial x - 2^16
x_minus_root == <<FNeg(root_monomial), 1>>

\* what the debug assertions of compute_root_quotient_and_shift require
RootQuotientDebugChecks(v, q, offset) ==
    /\ p_vanishing_eval(v) = 0
    /\ PolyDegree(q) = PolyDegree(v) - 1
    /\ AllInWindow(q, offset)
    /\ PolyMul(q, x_minus_root) = v

\* the shift that makes the witness positive
ShiftWitness(q, offset) == [i \in 1 .. Len(q) |-> FAdd(q[i], from_canonical(offset))]

\* debug: whether debug_assert! is compiled in (a debug build) or not (release)
compute_root_quotient_and_shift(v, offset, debug) ==
    LET p_quotient == root_quotient(v, root_monomial)
    IN  IF debug /\ ~RootQuotientDebugChecks(v, p_quotient, offset)
        THEN [ok |-> FALSE, witness |-> <<>>, quotient |-> p_quotient]
        ELSE [ok |-> TRUE, witness |-> ShiftWitness(p_quotient, offset),
              quotient |-> p_quotient]

\* (x as u16, (x >> 16) as u16) of every canonical value
split_u32_limbs_to_u16_limbs(slice) ==
    [low |-> [i \in 1 .. Len(slice) |-> from_canonical(as_u16(slice[i]))],
     high |-> [i \in 1 .. Len(slice) |-> from_canonical(as_u16(slice[i] \div Base))]]

\* coefficients of arbitrary polynomials: the field elements of small |value|
Coeffs == {from_int(c) : c \in (0 - MaxCoeff) .. MaxCoeff}

RqNone == [ok |-> FALSE, witness |-> <<>>, quotient |-> <<>>]

RqInit ==
    /\ rq_v \in [1 .. 2 -> Coeffs] \cup [1 .. 3 -> Coeffs]
    /\ rq_offset \in 1 .. MaxOffset
    /\ rq_debug \in BOOLEAN
    /\ rq_out = RqNone
    /\ rq_pc = "start"

RqIdle ==
    /\ rq_v = <<>> /\ rq_offset = 0 /\ rq_debug = FALSE /\ rq_out = RqNone /\ rq_pc = "idle"

\* let p_witness = compute_root_quotient_and_shift(&p_vanishing, offset);
RqCompute ==
    /\ rq_pc = "start"
    /\ rq_out' = compute_root_quotient_and_shift(rq_v, rq_offset, rq_debug)
    /\ rq_pc' = IF rq_out'.ok THEN "returned" ELSE "panicked"
    /\ UNCHANGED <<rq_v, rq_offset, rq_debug, notRootQuotient>>

----------------------------------------------------------------------------
(* FpAddInstruction: one row of the trace of test_fpadd. *)

\* P::NB_WITNESS_LIMBS and P::WITNESS_OFFSET of the field parameters
NB_WITNESS_LIMBS == 2 * NB_LIMBS - 2
WITNESS_OFFSET == 2 * Base

\* the moduli P::modulus() ranges over
Moduli == {7, 11, 13}

\* registers in the order test_fpadd allocates them: [start, len], 1-based
RegA == [start |-> 1, len |-> NB_LIMBS]
RegB == [start |-> NB_LIMBS + 1, len |-> NB_LIMBS]
RegResult == [start |-> 2 * NB_LIMBS + 1, len |-> NB_LIMBS]
RegCarry == [start |-> 3 * NB_LIMBS + 1, len |-> NB_LIMBS]
RegWitnessLow == [start |-> 4 * NB_LIMBS + 1, len |-> NB_WITNESS_LIMBS]
RegWitnessHigh == [start |-> 4 * NB_LIMBS + NB_WITNESS_LIMBS + 1, len |-> NB_WITNESS_LIMBS]
\* the row ends with a register of another instruction
RegOther == [start |-> 4 * NB_LIMBS + 2 * NB_WITNESS_LIMBS + 1, len |-> 2]
FpRowLen == 4 * NB_LIMBS + 2 * NB_WITNESS_LIMBS + RegOther.len

\* writer.read(register, row_index)
ReadReg(row, reg) == [i \in 1 .. reg.len |-> row[reg.start + i - 1]]

\* writer.write_slice(register, values, row_index)
WriteReg(row, reg, values) ==
    [c \in 1 .. Len(row) |->
        IF c >= reg.start /\ c < reg.start + reg.len /\ c - reg.start + 1 <= Len(values)
        THEN values[c - reg.start + 1] ELSE row[c]]

\* trace_layout(): result, carry, witness_low, witness_high
trace_layout == <<RegResult, RegCarry, RegWitnessLow, RegWitnessHigh>>

\* write_unsafe_batch_raw: the values fill the listed registers one after another
RECURSIVE write_unsafe_batch_raw(_, _, _)
write_unsafe_batch_raw(row, regs, values) ==
    IF regs = <<>> THEN row
    ELSE write_unsafe_batch_raw(
            WriteReg(row, Head(regs), SubSeq(values, 1, Head(regs).len)),
            Tail(regs),
            SubSeq(values, Head(regs).len + 1, Len(values)))

to_u16_le_limbs_polynomial(x) == biguint_to_16_digits_field(x, NB_LIMBS)

\* the limbs of a register read as u16 digits and put together
RegAsBigUint(row, reg) ==
    digits_to_biguint([i \in 1 .. reg.len |-> as_u16(ReadReg(row, reg)[i])])

\* result = (a + b) % modulus, with a variant that forgets the reduction
FpAddResultUnreduced(a, b, modulus) == a + b
FpAddResult(a, b, modulus) == (a + b) % modulus

\* carry = (a + b - result) / modulus, with a variant that never carries
FpAddCarryZero(a, b, result, modulus) == 0
FpAddCarry(a, b, result, modulus) == (a + b - result) \div modulus

\* the registers write lists in its call of write_unsafe_batch_raw
write_layout == <<RegResult, RegCarry, RegWitnessLow, RegWitnessHigh>>

\* the values of the row in the order write collects them, with a variant
\* that starts with the carry
WriteValuesCarryFirst(p_result, p_carry, p_witness_low, p_witness_high) ==
    p_carry \o p_result \o p_witness_low \o p_witness_high
WriteValues(p_result, p_carry, p_witness_low, p_witness_high) ==
    p_result \o p_carry \o p_witness_low \o p_witness_high

\* FpAddInstruction::write: [ok, row, vanishing, quotient, values]
FpAddWrite(row, modulus, debug) ==
    LET p_a == ReadReg(row, RegA)
        p_b == ReadReg(row, RegB)
        a == RegAsBigUint(row, RegA)
        b == RegAsBigUint(row, RegB)
        result == FpAddResult(a, b, modulus)
        carry == FpAddCarry(a, b, result, modulus)
        asserts == /\ result < modulus
                   /\ carry < modulus
                   /\ carry * modulus = a + b - result
        p_modulus == to_u16_le_limbs_polynomial(modulus)
        p_result == to_u16_le_limbs_polynomial(result)
        p_carry == to_u16_le_limbs_polynomial(carry)
        p_vanishing == PolySub(PolySub(PolyAdd(p_a, p_b), p_result.limbs),
                               PolyMul(p_carry.limbs, p_modulus.limbs))
        w == compute_root_quotient_and_shift(p_vanishing, WITNESS_OFFSET, debug)
        halves == split_u32_limbs_to_u16_limbs(w.witness)
        values == WriteValues(p_result.limbs, p_carry.limbs, halves.low, halves.high)
    IN  IF \/ debug /\ ~asserts
           \/ ~p_modulus.ok \/ ~p_result.ok \/ ~p_carry.ok
           \/ debug /\ PolyDegree(p_vanishing) # NB_WITNESS_LIMBS
           \/ ~w.ok
        THEN [ok |-> FALSE, row |-> row, vanishing |-> p_vanishing, quotient |-> w.quotient,
              values |-> <<>>]
        ELSE [ok |-> TRUE,
              row |-> write_unsafe_batch_raw(row, write_layout, values),
              vanishing |-> p_vanishing, quotient |-> w.quotient, values |-> values]

\* util::modulus_field_iter: the modulus limbs as field constants
modulus_field_iter(modulus) == to_u16_le_limbs_polynomial(modulus).limbs

\* util::eval_field_operation: vanishing - (low + high * 2^16 - offset) * (x - 2^16)
eval_field_operation(p_vanishing, p_witness_low, p_witness_high) ==
    LET p_witness_shifted == PolyAdd(p_witness_low, PolyScalarMul(p_witness_high, root_monomial))
        p_offset == [i \in 1 .. Len(p_witness_shifted) |-> from_canonical(WITNESS_OFFSET)]
        p_witness == PolySub(p_witness_shifted, p_offset)
    IN  PolySub(p_vanishing, PolyMul(p_witness, x_minus_root))

\* FpAddInstruction::eval: the constraint values on a row
FpAddEval(row, modulus) ==
    LET p_a == ReadReg(row, RegA)
        p_b == ReadReg(row, RegB)
        p_result == ReadReg(row, RegResult)
        p_carry == ReadReg(row, RegCarry)
        p_a_plus_b == PolyAdd(p_a, p_b)
        p_a_plus_b_minus_result == PolySub(p_a_plus_b, p_result)
        p_limbs == modulus_field_iter(modulus)
        p_mul_times_carry == PolyMul(p_carry, p_limbs)
        p_vanishing == PolySub(p_a_plus_b_minus_result, p_mul_times_carry)
    IN  eval_field_operation(p_vanishing, ReadReg(row, RegWitnessLow),
                             ReadReg(row, RegWitnessHigh))

IsZeroVector(v) == \A i \in 1 .. Len(v) : v[i] = 0

ZeroRow == [c \in 1 .. FpRowLen |-> 0]

\* writer.write_slice(&a, p_a.coefficients(), i); writer.write_slice(&b, ...)
FpInputRow(a, b) ==
    WriteReg(WriteReg(WriteReg(ZeroRow, RegA, to_u16_le_limbs_polynomial(a).limbs),
                      RegB, to_u16_le_limbs_polynomial(b).limbs),
             RegOther, <<from_canonical(Base - 1), from_canonical(1)>>)

FpInit ==
    /\ fp_modulus \in Moduli
    /\ fp_a \in 0 .. (fp_modulus - 1)
    /\ fp_b \in 0 .. (fp_modulus - 1)
    /\ fp_debug \in BOOLEAN
    /\ fp_row = FpInputRow(fp_a, fp_b)
    /\ fp_vanishing = <<>>
    /\ fp_quotient = <<>>
    /\ fp_values = <<>>
    /\ fp_pc = "start"

FpIdle ==
    /\ fp_modulus = 0 /\ fp_a = 0 /\ fp_b = 0 /\ fp_debug = FALSE
    /\ fp_row = <<>> /\ fp_vanishing = <<>> /\ fp_quotient = <<>> /\ fp_values = <<>>
    /\ fp_pc = "idle"

\* writer.write_row_instructions(&generator.air_data, i)
FpWriteRow ==
    /\ fp_pc = "start"
    /\ LET w == FpAddWrite(fp_row, fp_modulus, fp_debug)
       IN  /\ fp_row' = w.row
           /\ fp_vanishing' = w.vanishing
           /\ fp_quotient' = w.quotient
           /\ fp_values' = w.values
           /\ fp_pc' = IF w.ok THEN "written" ELSE "panicked"
    /\ UNCHANGED <<fp_modulus, fp_a, fp_b, fp_debug, notFpAdd>>

----------------------------------------------------------------------------
(* AirBuilder: new, the allocations and registrations, build. *)

NoPanic == [budget |-> "none", expected |-> 0, got |-> 0]
NoChip == [execution_trace_length |-> 0, constraints |-> 0, instructions |-> 0]
NoRegisters == [free |-> <<>>, arithmetic |-> <<>>, extended |-> <<>>]

\* the first extended column, with a variant that starts on the free columns
FirstExtendedColumnOverlapping(arithmetic_columns, free_columns) == arithmetic_columns
FirstExtendedColumn(arithmetic_columns, free_columns) == arithmetic_columns + free_columns

\* AirBuilder::new_with_shared_memory for the budgets of L
BInit ==
    /\ NUM_ARITHMETIC_COLUMNS \in 0 .. MaxBudget
    /\ NUM_FREE_COLUMNS \in 0 .. MaxBudget
    /\ EXTENDED_COLUMNS \in 0 .. MaxBudget
    /\ local_index = NUM_ARITHMETIC_COLUMNS
    /\ local_arithmetic_index = 0
    /\ extended_index = FirstExtendedColumn(NUM_ARITHMETIC_COLUMNS, NUM_FREE_COLUMNS)
    /\ internal_range_check = TRUE
    /\ global_arithmetic = 0
    /\ instructions = 0
    /\ constraints = 0
    /\ b_warnings = {}
    /\ b_panic = NoPanic
    /\ b_chip = NoChip
    /\ b_registers = NoRegisters
    /\ b_pc = "building"

\* the same for the budgets of a chip with field instructions: the
\* arithmetic budget also covers one FpAddInstruction and its operand
BInitRegisters ==
    /\ NUM_ARITHMETIC_COLUMNS \in {MaxBudget, MaxColumns + 2 * NB_LIMBS + 2 * NB_WITNESS_LIMBS}
    /\ NUM_FREE_COLUMNS \in 0 .. MaxBudget
    /\ EXTENDED_COLUMNS \in 0 .. MaxBudget
    /\ local_index = NUM_ARITHMETIC_COLUMNS
    /\ local_arithmetic_index = 0
    /\ extended_index = FirstExtendedColumn(NUM_ARITHMETIC_COLUMNS, NUM_FREE_COLUMNS)
    /\ internal_range_check = TRUE
    /\ global_arithmetic = 0
    /\ instructions = 0
    /\ constraints = 0
    /\ b_warnings = {}
    /\ b_panic = NoPanic
    /\ b_chip = NoChip
    /\ b_registers = NoRegisters
    /\ b_pc = "building"

BIdle ==
    /\ NUM_ARITHMETIC_COLUMNS = 0 /\ NUM_FREE_COLUMNS = 0 /\ EXTENDED_COLUMNS = 0
    /\ local_index = 0 /\ local_arithmetic_index = 0 /\ extended_index = 0
    /\ internal_range_check = FALSE /\ global_arithmetic = 0
    /\ instructions = 0 /\ constraints = 0
    /\ b_warnings = {} /\ b_panic = NoPanic /\ b_chip = NoChip
    /\ b_registers = NoRegisters /\ b_pc = "idle"

bBudgets == <<NUM_ARITHMETIC_COLUMNS, NUM_FREE_COLUMNS, EXTENDED_COLUMNS>>
bGlobal == <<global_arithmetic>>
bOutcome == <<b_warnings, b_panic, b_chip, b_pc>>

\* the columns allocated so far, by kind
num_free_columns == local_index - NUM_ARITHMETIC_COLUMNS
num_arithmetic_columns == local_arithmetic_index
num_extended_columns == extended_index - NUM_ARITHMETIC_COLUMNS - NUM_FREE_COLUMNS

\* the register an allocation returns: MemorySlice::Local(index, size)
Local(index, size) == [start |-> index, size |-> size]

\* the registers the caller holds after a call that returned `register`
Held(kind, register, keep) ==
    IF keep THEN [b_registers EXCEPT ![kind] = Append(@, register)] ELSE b_registers

\* alloc of a free (element or bit) register of `size` columns; the caller
\* keeps the register or drops it
AllocFree(size, keep) ==
    /\ b_pc = "building"
    /\ num_free_columns + size <= MaxColumns
    /\ local_index' = local_index + size
    /\ b_registers' = Held("free", Local(local_index, size), keep)
    /\ UNCHANGED <<bBudgets, local_arithmetic_index, extended_index, internal_range_check,
                   instructions, constraints, bOutcome, bGlobal, notBuilder>>

\* alloc of an arithmetic (u16) register of `size` columns
AllocArithmetic(size, keep) ==
    /\ b_pc = "building"
    /\ num_arithmetic_columns + size <= MaxColumns
    /\ local_arithmetic_index' = local_arithmetic_index + size
    /\ b_registers' = Held("arithmetic", Local(local_arithmetic_index, size), keep)
    /\ UNCHANGED <<bBudgets, local_index, extended_index, internal_range_check,
                   instructions, constraints, bOutcome, bGlobal, notBuilder>>

\* alloc_extended of a register of `size` columns
AllocExtended(size, keep) ==
    /\ b_pc = "building"
    /\ num_extended_columns + size <= MaxColumns
    /\ extended_index' = extended_index + size
    /\ b_registers' = Held("extended", Local(extended_index, size), keep)
    /\ UNCHANGED <<bBudgets, local_index, local_arithmetic_index, internal_range_check,
                   instructions, constraints, bOutcome, bGlobal, notBuilder>>

\* alloc_fp_add_instruction(a, b) on two field registers the caller holds:
\* result, carry, witness_low and witness_high are allocated in this order
AllocFpAdd(a, b) ==
    /\ b_pc = "building"
    /\ a \in 1 .. Len(b_registers.arithmetic) /\ b \in 1 .. Len(b_registers.arithmetic)
    /\ b_registers.arithmetic[a].size = NB_LIMBS /\ b_registers.arithmetic[b].size = NB_LIMBS
    /\ num_arithmetic_columns <= MaxColumns
    /\ LET result == Local(local_arithmetic_index, NB_LIMBS)
           carry == Local(result.start + result.size, NB_LIMBS)
           witness_low == Local(carry.start + carry.size, NB_WITNESS_LIMBS)
           witness_high == Local(witness_low.start + witness_low.size, NB_WITNESS_LIMBS)
       IN  /\ local_arithmetic_index' = witness_high.start + witness_high.size
           /\ b_registers' = [b_registers EXCEPT !.arithmetic =
                                @ \o <<result, carry, witness_low, witness_high>>]
    /\ UNCHANGED <<bBudgets, local_index, extended_index, internal_range_check,
                   instructions, constraints, bOutcome, bGlobal, notBuilder>>

\* register_instruction: the instruction and its constraint are pushed
RegisterInstruction ==
    /\ b_pc = "building"
    /\ instructions < MaxRegistered
    /\ instructions' = instructions + 1
    /\ constraints' = constraints + 1
    /\ UNCHANGED <<b_registers, bBudgets, local_index, local_arithmetic_index, extended_index,
                   internal_range_check, bOutcome, bGlobal, notBuilder>>

\* register_constraint
RegisterConstraint ==
    /\ b_pc = "building"
    /\ constraints - instructions < MaxRegistered
    /\ constraints' = constraints + 1
    /\ UNCHANGED <<b_registers, bBudgets, local_index, local_arithmetic_index, extended_index,
                   internal_range_check, instructions, bOutcome, bGlobal, notBuilder>>

\* alloc of a global arithmetic register: it is pushed on global_arithmetic
AllocGlobalArithmetic ==
    /\ b_pc = "building"
    /\ global_arithmetic < MaxRegistered
    /\ global_arithmetic' = global_arithmetic + 1
    /\ UNCHANGED <<b_registers, bBudgets, local_index, local_arithmetic_index, extended_index,
                   internal_range_check, instructions, constraints, bOutcome, notBuilder>>

\* the builder's internal_range_check field is cleared
DisableRangeCheck ==
    /\ b_pc = "building"
    /\ internal_range_check
    /\ internal_range_check' = FALSE
    /\ UNCHANGED <<b_registers, bBudgets, local_index, local_arithmetic_index, extended_index,
                   instructions, constraints, bOutcome, bGlobal, notBuilder>>

\* whether build() calls arithmetic_range_checks()
AddsRangeChecks ==
    (NUM_ARITHMETIC_COLUMNS > 0 \/ global_arithmetic > 0) /\ internal_range_check

\* Ordering::Greater of `allocated.cmp(&budget)`, with a variant that never is
IsGreaterNever(allocated, budget) == FALSE
IsGreater(allocated, budget) == allocated > budget

\* the three matches of build(), in their order: free, arithmetic, extended.
\* The panic message is given the arguments in the order the code passes them.
BudgetPanic(free, arith, ext) ==
    IF IsGreater(free, NUM_FREE_COLUMNS)
    THEN [budget |-> "free", expected |-> free, got |-> NUM_FREE_COLUMNS]
    ELSE IF IsGreater(arith, NUM_ARITHMETIC_COLUMNS)
    THEN [budget |-> "arithmetic", expected |-> arith, got |-> NUM_ARITHMETIC_COLUMNS]
    ELSE IF IsGreater(ext, EXTENDED_COLUMNS)
    THEN [budget |-> "extended", expected |-> ext, got |-> EXTENDED_COLUMNS]
    ELSE NoPanic

\* the warnings printed by the matches that build() reaches
BudgetWarnings(free, arith, ext) ==
    LET p == BudgetPanic(free, arith, ext).budget
    IN  (IF free < NUM_FREE_COLUMNS
         THEN {[budget |-> "free", unused |-> NUM_FREE_COLUMNS - free]} ELSE {})
        \cup (IF p \notin {"free"} /\ arith < NUM_ARITHMETIC_COLUMNS
              THEN {[budget |-> "arithmetic", unused |-> NUM_ARITHMETIC_COLUMNS - arith]}
              ELSE {})
        \cup (IF p \notin {"free", "arithmetic"} /\ ext < EXTENDED_COLUMNS
              THEN {[budget |-> "extended", unused |-> EXTENDED_COLUMNS - ext]} ELSE {})

\* build(): the range checks first (they allocate their own table and
\* accumulator columns, range_free and range_ext of them), then the three
\* budget matches, then the (Chip, AirTraceData) pair.
Build ==
    /\ b_pc = "building"
    /\ \E range_free \in 0 .. 1, range_ext \in 0 .. 1 :
        /\ (~AddsRangeChecks => range_free = 0 /\ range_ext = 0)
        /\ local_index' = local_index + range_free
        /\ extended_index' = extended_index + range_ext
        /\ b_registers' =
                [b_registers EXCEPT
                    !.free = IF range_free > 0
                             THEN Append(@, Local(local_index, range_free)) ELSE @,
                    !.extended = IF range_ext > 0
                                 THEN Append(@, Local(extended_index, range_ext)) ELSE @]
        /\ constraints' = constraints + (IF AddsRangeChecks THEN 1 ELSE 0)
        /\ LET free == num_free_columns + range_free
               arith == num_arithmetic_columns
               ext == num_extended_columns + range_ext
               panic == BudgetPanic(free, arith, ext)
           IN  /\ b_panic' = panic
               /\ b_warnings' = BudgetWarnings(free, arith, ext)
               /\ b_pc' = IF panic = NoPanic THEN "built" ELSE "panicked"
               /\ b_chip' = IF panic = NoPanic
                            THEN [execution_trace_length |-> local_index',
                                  constraints |-> constraints',
                                  instructions |-> instructions]
                            ELSE NoChip
    /\ UNCHANGED <<bBudgets, local_arithmetic_index, internal_range_check, instructions,
                   bGlobal, notBuilder>>

----------------------------------------------------------------------------
(* The cubic extension F[X] / (X^3 - X - 1) of the lookup argument. *)

zero_extension == <<0, 0, 0>>
one_extension == <<1, 0, 0>>
element_from_base_field(x) == <<x, 0, 0>>
add_extension(a, b) == <<FAdd(a[1], b[1]), FAdd(a[2], b[2]), FAdd(a[3], b[3])>>
sub_extension(a, b) == <<FSub(a[1], b[1]), FSub(a[2], b[2]), FSub(a[3], b[3])>>

\* the product, reduced with X^3 = X + 1 and X^4 = X^2 + X
mul_extension(a, b) ==
    LET c0 == FMul(a[1], b[1])
        c1 == FAdd(FMul(a[1], b[2]), FMul(a[2], b[1]))
        c2 == FAdd(FAdd(FMul(a[1], b[3]), FMul(a[2], b[2])), FMul(a[3], b[1]))
        c3 == FAdd(FMul(a[2], b[3]), FMul(a[3], b[2]))
        c4 == FMul(a[3], b[3])
    IN  <<FAdd(c0, c3), FAdd(FAdd(c1, c3), c4), FAdd(c2, c4)>>

\* the inverse: the solution x of (multiplication by a) x = 1, by Cramer's rule
CubicInverse(a) ==
    LET m10 == a[2]
        m11 == FAdd(a[1], a[3])
        m12 == FAdd(a[2], a[3])
        m20 == a[3]
        m21 == a[2]
        m22 == FAdd(a[1], a[3])
        k0 == FSub(FMul(m11, m22), FMul(m12, m21))
        k1 == FNeg(FSub(FMul(m10, m22), FMul(m12, m20)))
        k2 == FSub(FMul(m10, m21), FMul(m11, m20))
        det == FAdd(FAdd(FMul(a[1], k0), FMul(a[3], k1)), FMul(a[2], k2))
        d == FInverse(det)
    IN  <<FMul(k0, d), FMul(k1, d), FMul(k2, d)>>

CubicDiv(a, b) == mul_extension(a, CubicInverse(b))

RECURSIVE CubicSum(_)
CubicSum(s) == IF s = <<>> THEN zero_extension ELSE add_extension(Head(s), CubicSum(Tail(s)))

\* the sum of the first i entries of a sequence of extension elements
PrefixSum(s, i) == CubicSum(SubSeq(s, 1, i))

----------------------------------------------------------------------------
(* The log-derivative lookup: the trace writers and the constraints. *)

\* value registers per row
LkValueRegisters == 2 * LkPairs

\* the range table: column k of row r (both from 1) holds its own index
TableValue(r, k) == (k - 1) * LkRows + (r - 1)
\* the values no table entry holds that a prover may write instead
AbsentValues == {LkTables * LkRows, LkTables * LkRows + 1}

\* the challenges: three outside the base field, and two of the base field,
\* of which <<1, 0, 0>> equals a table value
Betas == {<<0, 1, 0>>, <<2, 0, 1>>, <<5, 3, 1>>, <<1, 0, 0>>, <<3, 0, 0>>}

\* one trace row before the lookup writers have run
FreshRow(r, values) ==
    [values |-> values,
     table |-> [k \in 1 .. LkTables |-> TableValue(r, k)],
     multiplicities |-> [k \in 1 .. LkTables |-> 0],
     multiplicities_table_log |-> [k \in 1 .. LkTables |-> zero_extension],
     table_accumulator |-> zero_extension,
     row_accumulators |-> [k \in 1 .. LkPairs |-> zero_extension],
     log_lookup_accumulator |-> zero_extension]

NoDigests == [table |-> zero_extension, local |-> zero_extension, values |-> zero_extension]
NoForgery == [row |-> 0, register |-> 0, value |-> 0]

\* a trace whose value registers hold table values: a first row and a shift
\* from each row to the next
LkInit ==
    /\ lk_beta \in Betas
    /\ \E first \in [1 .. LkValueRegisters -> 0 .. LkRows - 1], shift \in 0 .. LkRows - 1 :
        lk_trace = [r \in 1 .. LkRows |->
                        FreshRow(r, [j \in 1 .. LkValueRegisters |->
                                        (first[j] + shift * (r - 1)) % LkRows])]
    /\ lk_public = <<>>
    /\ lk_digests = NoDigests
    /\ lk_forged = NoForgery
    /\ lk_pc = "start"

\* the inputs of write_multiplicities_from_fn alone: trace and public values
\* that may hold a value past the last table row
LkInitMultiplicities ==
    /\ lk_beta = <<0, 1, 0>>
    /\ \E first \in [1 .. LkValueRegisters -> 0 .. LkRows], shift \in 0 .. LkRows :
        lk_trace = [r \in 1 .. LkRows |->
                        FreshRow(r, [j \in 1 .. LkValueRegisters |->
                                        (first[j] + shift * (r - 1)) % (LkRows + 1)])]
    /\ \E n \in 0 .. LkPublic : lk_public \in [1 .. n -> 0 .. LkRows]
    /\ lk_digests = NoDigests
    /\ lk_forged = NoForgery
    /\ lk_pc = "start"

\* a trace with any number of value registers up to one more than the pairs
\* hold, odd numbers included; the row accumulators are one per whole pair
LkInitRegisters ==
    /\ lk_beta \in Betas
    /\ \E n \in 1 .. LkValueRegisters + 1 :
       \E first \in [1 .. n -> 0 .. LkRows - 1], shift \in 0 .. LkRows - 1 :
        lk_trace = [r \in 1 .. LkRows |->
                        [FreshRow(r, [j \in 1 .. n |-> (first[j] + shift * (r - 1)) % LkRows])
                            EXCEPT !.row_accumulators = [k \in 1 .. n \div 2 |-> zero_extension]]]
    /\ lk_public = <<>>
    /\ lk_digests = NoDigests
    /\ lk_forged = NoForgery
    /\ lk_pc = "start"

LkIdle ==
    /\ lk_beta = zero_extension /\ lk_trace = <<>> /\ lk_public = <<>>
    /\ lk_digests = NoDigests
    /\ lk_forged = NoForgery /\ lk_pc = "idle"

\* the table_index closure of a range table, with a variant that sends
\* every value to the first table row
table_indexFirst(val) == 0
table_index(val) == val

\* write_multiplicities_from_fn: [ok, trace]; every trace_values register of
\* every row is counted, then every public_values register; nothing is
\* written when an index fails the assertion
write_multiplicities_from_fn(trace, public) ==
    LET num_rows == Len(trace)
        cells == {c \in (1 .. num_rows) \X (1 .. LkValueRegisters + 1) :
                    c[2] <= Len(trace[c[1]].values)}
        publics == 1 .. Len(public)
        ok == /\ \A c \in cells : table_index(trace[c[1]].values[c[2]]) < num_rows
              /\ \A j \in publics : table_index(public[j]) < num_rows
        multiplicities(i) ==
            (Cardinality({c \in cells : table_index(trace[c[1]].values[c[2]]) = i})
                + Cardinality({j \in publics : table_index(public[j]) = i})) % FieldOrder
    IN  [ok |-> ok,
         trace |-> IF ok
                   THEN [r \in 1 .. num_rows |->
                            [trace[r] EXCEPT !.multiplicities[1] = multiplicities(r - 1)]]
                   ELSE trace]

\* table_log = mult / (beta - table), with a variant that forgets the division
TableLogUndivided(mult, beta, table) == mult
TableLog(mult, beta, table) == CubicDiv(mult, sub_extension(beta, table))

\* the table logs of one row
RowTableLogs(row, beta) ==
    [k \in 1 .. Len(row.table) |->
        TableLog(element_from_base_field(row.multiplicities[k]), beta,
                 element_from_base_field(row.table[k]))]

\* write_log_lookup_table: [ok, trace, digest]; the division panics on a
\* challenge that equals a table value
write_log_lookup_table(trace, beta) ==
    LET num_rows == Len(trace)
        ok == \A r \in 1 .. num_rows : \A k \in 1 .. Len(trace[r].table) :
                sub_extension(beta, element_from_base_field(trace[r].table[k])) # zero_extension
        mult_table_log_entries == [r \in 1 .. num_rows |-> CubicSum(RowTableLogs(trace[r], beta))]
        acc(i) == PrefixSum(mult_table_log_entries, i)
    IN  IF ~ok THEN [ok |-> FALSE, trace |-> trace, digest |-> zero_extension]
        ELSE [ok |-> TRUE,
              trace |-> [r \in 1 .. num_rows |->
                            [trace[r] EXCEPT !.multiplicities_table_log = RowTableLogs(trace[r], beta),
                                             !.table_accumulator = acc(r)]],
              digest |-> acc(num_rows)]

\* the pairs of values.chunks_exact(2): a trailing odd register is dropped
chunks_exact_2(values) == [k \in 1 .. (Len(values) \div 2) |-> <<values[2 * k - 1], values[2 * k]>>]

\* 1 / (beta - a) + 1 / (beta - b) of one pair
PairLogDerivative(pair, beta) ==
    add_extension(CubicInverse(sub_extension(beta, element_from_base_field(pair[1]))),
                  CubicInverse(sub_extension(beta, element_from_base_field(pair[2]))))

\* the row accumulators of one row: the running sums over its pairs
RowAccumulators(values, beta) ==
    LET pairs == chunks_exact_2(values)
        terms == [k \in 1 .. Len(pairs) |-> PairLogDerivative(pairs[k], beta)]
    IN  [k \in 1 .. Len(pairs) |-> PrefixSum(terms, k)]

\* whether beta equals none of the values of the trace
NoCollision(trace, beta) ==
    \A r \in 1 .. Len(trace) : \A j \in 1 .. Len(trace[r].values) :
        sub_extension(beta, element_from_base_field(trace[r].values[j])) # zero_extension

\* write_log_lookup_values: [ok, trace, local_digest, digest]; the public
\* values are accumulated pair by pair into the global accumulator
write_log_lookup_values(trace, public, beta) ==
    LET num_rows == Len(trace)
        racc(r) == RowAccumulators(trace[r].values, beta)
        accumulators == [r \in 1 .. num_rows |->
                            IF racc(r) = <<>> THEN zero_extension ELSE racc(r)[Len(racc(r))]]
        value(i) == PrefixSum(accumulators, i)
        gacc == RowAccumulators(public, beta)
        global_accumulator == IF gacc = <<>> THEN zero_extension ELSE gacc[Len(gacc)]
        public_collision ==
            \E j \in 1 .. 2 * (Len(public) \div 2) :
                sub_extension(beta, element_from_base_field(public[j])) = zero_extension
    IN  IF ~NoCollision(trace, beta) \/ public_collision
        THEN [ok |-> FALSE, trace |-> trace, local_digest |-> zero_extension,
              digest |-> zero_extension]
        ELSE [ok |-> TRUE,
              trace |-> [r \in 1 .. num_rows |->
                            [trace[r] EXCEPT !.row_accumulators = racc(r),
                                             !.log_lookup_accumulator = value(r)]],
              local_digest |-> value(num_rows),
              digest |-> add_extension(value(num_rows), global_accumulator)]

\* the window of row r: the row itself and its successor (cyclically)
NextRow(trace, r) == trace[(r % Len(trace)) + 1]

\* the constraints a parser keeps at row r: all rows, first row, transition
\* (every row but the last) and last row
ConstraintsAt(trace, r, all, first, transition, last) ==
    all \o (IF r = 1 THEN first ELSE <<>>)
        \o (IF r < Len(trace) THEN transition ELSE <<>>)
        \o (IF r = Len(trace) THEN last ELSE <<>>)

\* LookupTable::eval at row r
LookupTableEval(trace, beta, digests, r) ==
    LET local == trace[r]
        next == NextRow(trace, r)
        multiplicities == [k \in 1 .. Len(local.multiplicities) |->
                              element_from_base_field(local.multiplicities[k])]
        table == [k \in 1 .. Len(local.table) |-> element_from_base_field(local.table[k])]
        multiplicities_table_log == local.multiplicities_table_log
        beta_minus_tables == [k \in 1 .. Len(table) |-> sub_extension(beta, table[k])]
        mult_table_constraints ==
            [k \in 1 .. Len(table) |->
                sub_extension(multiplicities[k],
                              mul_extension(multiplicities_table_log[k], beta_minus_tables[k]))]
        mult_table_log_sum == CubicSum(multiplicities_table_log)
        accumulator == local.table_accumulator
        first_row_acc == sub_extension(accumulator, mult_table_log_sum)
        mult_table_log_sum_next == CubicSum(next.multiplicities_table_log)
        acc_next_expected == add_extension(accumulator, mult_table_log_sum_next)
        acc_next_constraint == sub_extension(next.table_accumulator, acc_next_expected)
        digest_constraint == sub_extension(digests.table, accumulator)
    IN  ConstraintsAt(trace, r, mult_table_constraints, <<first_row_acc>>,
                      <<acc_next_constraint>>, <<digest_constraint>>)

\* the constraint of pair k of a row: the first against acc_0, the others
\* against the difference to the previous accumulator
RowAccumulatorConstraint(row, beta, k) ==
    LET pair == chunks_exact_2(row.values)[k]
        beta_minus_a == sub_extension(beta, element_from_base_field(pair[1]))
        beta_minus_b == sub_extension(beta, element_from_base_field(pair[2]))
        acc_minus_prev == IF k = 1 THEN row.row_accumulators[1]
                          ELSE sub_extension(row.row_accumulators[k], row.row_accumulators[k - 1])
    IN  sub_extension(add_extension(beta_minus_a, beta_minus_b),
                      mul_extension(mul_extension(beta_minus_a, beta_minus_b), acc_minus_prev))

\* LogLookup::eval at row r: the table's constraints, then its own
LogLookupEval(trace, beta, digests, r) ==
    LET local == trace[r]
        next == NextRow(trace, r)
        mult_table_constraint ==
            sub_extension(element_from_base_field(local.multiplicities[1]),
                          mul_extension(local.multiplicities_table_log[1],
                                        sub_extension(beta, element_from_base_field(local.table[1]))))
        pairs == Len(chunks_exact_2(local.values))
        row_constraints == [k \in 1 .. pairs |-> RowAccumulatorConstraint(local, beta, k)]
        prev_value == local.row_accumulators[Len(local.row_accumulators)]
        acc_transition_constraint ==
            sub_extension(sub_extension(next.log_lookup_accumulator, local.log_lookup_accumulator),
                          prev_value)
        acc_first_row_constraint == local.log_lookup_accumulator
        lookup_digest_constraint == sub_extension(digests.values, local.log_lookup_accumulator)
    IN  LookupTableEval(trace, beta, digests, r)
        \o ConstraintsAt(trace, r, <<mult_table_constraint>> \o row_constraints,
                         <<acc_first_row_constraint>>, <<acc_transition_constraint>>,
                         <<lookup_digest_constraint>>)

\* whether every constraint of a list is zero
Vanishes(cs) == \A i \in 1 .. Len(cs) : cs[i] = zero_extension

\* whether every constraint emitted for the lookup vanishes on every row
AllLookupConstraintsVanish(trace, beta, digests) ==
    \A r \in 1 .. Len(trace) : Vanishes(LogLookupEval(trace, beta, digests, r))

\* the values-side columns a prover writes to make the constraints of
\* LogLookup::eval vanish: the row accumulators, the running accumulator
\* (zero on the first row, then the last row accumulator of each row added)
\* and the digest
ProverValuesColumns(trace, beta) ==
    LET num_rows == Len(trace)
        racc(r) == RowAccumulators(trace[r].values, beta)
        lasts == [r \in 1 .. num_rows |-> racc(r)[Len(racc(r))]]
        log(r) == PrefixSum(lasts, r - 1)
    IN  [trace |-> [r \in 1 .. num_rows |->
                        [trace[r] EXCEPT !.row_accumulators = racc(r),
                                         !.log_lookup_accumulator = log(r)]],
         digest |-> log(num_rows)]

\* pass 1 of the lookup writer
LkWriteMultiplicities ==
    /\ lk_pc = "start"
    /\ LET w == write_multiplicities_from_fn(lk_trace, lk_public)
       IN  /\ lk_trace' = w.trace
           /\ lk_pc' = IF w.ok THEN "multiplicities" ELSE "panicked"
    /\ UNCHANGED <<lk_beta, lk_public, lk_digests, lk_forged, notLookup>>

\* pass 2, the table side
LkWriteLogLookupTable ==
    /\ lk_pc = "multiplicities"
    /\ LET w == write_log_lookup_table(lk_trace, lk_beta)
       IN  /\ lk_trace' = w.trace
           /\ lk_digests' = [lk_digests EXCEPT !.table = w.digest]
           /\ lk_pc' = IF w.ok THEN "table" ELSE "panicked"
    /\ UNCHANGED <<lk_beta, lk_public, lk_forged, notLookup>>

\* pass 2, the values side
LkWriteLogLookupValues ==
    /\ lk_pc = "table"
    /\ LET w == write_log_lookup_values(lk_trace, lk_public, lk_beta)
       IN  /\ lk_trace' = w.trace
           /\ lk_digests' = [lk_digests EXCEPT !.local = w.local_digest, !.values = w.digest]
           /\ lk_pc' = IF w.ok THEN "values" ELSE "panicked"
    /\ UNCHANGED <<lk_beta, lk_public, lk_forged, notLookup>>

\* a prover fills the values side; the trace is "satisfied" when every lookup
\* constraint vanishes on it
LkProverFill ==
    /\ lk_pc = "table"
    /\ NoCollision(lk_trace, lk_beta)
    /\ LET w == ProverValuesColumns(lk_trace, lk_beta)
           digests == [lk_digests EXCEPT !.values = w.digest]
       IN  /\ lk_trace' = w.trace
           /\ lk_digests' = digests
           /\ lk_pc' = IF AllLookupConstraintsVanish(w.trace, lk_beta, digests)
                       THEN "satisfied" ELSE "unsatisfied"
    /\ UNCHANGED <<lk_beta, lk_public, lk_forged, notLookup>>

\* on a satisfied trace the prover changes one queried value to a value
\* absent from the table and recomputes the row accumulators, the running
\* accumulator and the digest
LkForge(r, j, v) ==
    /\ lk_pc = "satisfied"
    /\ sub_extension(lk_beta, element_from_base_field(v)) # zero_extension
    /\ LET mutated == [lk_trace EXCEPT ![r].values[j] = v]
           w == ProverValuesColumns(mutated, lk_beta)
       IN  /\ lk_trace' = w.trace
           /\ lk_digests' = [lk_digests EXCEPT !.values = w.digest]
    /\ lk_forged' = [row |-> r, register |-> j, value |-> v]
    /\ lk_pc' = "forged"
    /\ UNCHANGED <<lk_beta, lk_public, notLookup>>

----------------------------------------------------------------------------
(* The twisted Edwards curve -x^2 + y^2 = 1 + d x^2 y^2 of the gadget,     *)
(* over a small prime field (the base field of Ed25519 in the program).    *)

EdModulus == 2^4 - 3
EdD == 2
EdField == 0 .. EdModulus - 1
EdInverse(x) == CHOOSE y \in EdField : (x * y) % EdModulus = 1

\* a * b + c * d and a * b in the base field of the curve
fpquad(a, b, c, d) == (a * b + c * d) % EdModulus
fpmul(a, b) == (a * b) % EdModulus
fpmul_const(a, c) == (a * c) % EdModulus

\* num / (1 + dxy) when sign, num / (1 - dxy) otherwise
ed_den(num, dxy, sign) ==
    LET den == IF sign THEN (1 + dxy) % EdModulus ELSE (1 + EdModulus - dxy) % EdModulus
    IN  (num * EdInverse(den)) % EdModulus

\* the point addition, composed of the field gadgets
ed_add(P, Q) ==
    LET x_num == fpquad(P[1], Q[2], Q[1], P[2])
        y_num == fpquad(P[2], Q[2], P[1], Q[1])
        px_py == fpmul(P[1], P[2])
        qx_qy == fpmul(Q[1], Q[2])
        all_xy == fpmul(px_py, qx_qy)
        dxy == fpmul_const(all_xy, EdD)
    IN  <<ed_den(x_num, dxy, TRUE), ed_den(y_num, dxy, FALSE)>>

ed_double(P) == ed_add(P, P)

neutral == <<0, 1>>
generator == <<2, 4>>

\* the reference scalar multiplication: s additions of P
RECURSIVE ScalarMulRef(_, _)
ScalarMulRef(s, P) == IF s = 0 THEN neutral ELSE ed_add(ScalarMulRef(s - 1, P), P)

\* BigUint::to_bytes_le: little-endian bytes, one zero byte for zero
RECURSIVE to_bytes_le(_)
to_bytes_le(x) ==
    IF x < 2^ByteBits THEN <<x>> ELSE <<x % 2^ByteBits>> \o to_bytes_le(x \div 2^ByteBits)

\* the bits of every byte, least significant first
RECURSIVE BitsOfBytes(_)
BitsOfBytes(bytes) ==
    IF bytes = <<>> THEN <<>>
    ELSE [i \in 1 .. ByteBits |-> (Head(bytes) \div 2^(i - 1)) % 2] \o BitsOfBytes(Tail(bytes))

\* biguint_to_bits_le: [ok, bits]; resize cuts the bits beyond num_bits
biguint_to_bits_le(integer, num_bits, debug) ==
    LET bits == BitsOfBytes(to_bytes_le(integer))
    IN  IF debug /\ Len(bits) > num_bits THEN [ok |-> FALSE, bits |-> <<>>]
        ELSE [ok |-> TRUE, bits |-> resize(bits, num_bits)]

----------------------------------------------------------------------------
(* The scalar-multiplication gadget: a trace of SmCycles cycles, written by *)
(* one worker per cycle.                                                    *)

\* rows of one cycle (self.cycle(8) in the program) and of the trace
CycleSize == 2^SmCycleBits
SmRows == SmCycles * CycleSize
\* the scalars the workers draw: the smallest three and the largest
Scalars == {0, 1, 2, 2^CycleSize - 1}

\* a row no instruction has written
EmptyRow ==
    [start_bit |-> 0, end_bit |-> 0, bit |-> 0, result |-> <<0, 0>>, temp |-> <<0, 0>>,
     add_result |-> <<0, 0>>, double_result |-> <<0, 0>>, result_next |-> <<0, 0>>]

NewWorker == [pc |-> "new", point |-> <<0, 0>>, scalar |-> 0, bits |-> <<>>, i |-> 0]

SmInit ==
    /\ sm_trace = [r \in 0 .. SmRows - 1 |-> EmptyRow]
    /\ sm_worker = [k \in 0 .. SmCycles - 1 |-> NewWorker]
    /\ sm_writers = [r \in 0 .. SmRows - 1 |-> {}]

SmIdle ==
    /\ sm_trace = <<>>
    /\ sm_worker = <<>>
    /\ sm_writers = <<>>

\* flag * next + (1 - flag) * fresh on one column of the native field, with
\* a variant that ignores the flag
BlendFresh(flag, next, fresh) == fresh
Blend(flag, next, fresh) == FAdd(FMul(flag, next), FMul(FSub(1, flag), fresh))

\* the same on the two coordinates of a point
BlendPoint(flag, next, fresh) ==
    <<Blend(flag, next[1], fresh[1]), Blend(flag, next[2], fresh[2])>>

\* select(bit, a, b): a when the bit is set, with a variant that swaps them
SelectSwapped(bit, a, b) == IF bit = 1 THEN b ELSE a
Select(bit, a, b) == IF bit = 1 THEN a ELSE b

\* the Cycle instruction on row r: start and end bit of the row's cycle
WriteCycle(row, r) ==
    [row EXCEPT !.start_bit = IF r % CycleSize = 0 THEN 1 ELSE 0,
                !.end_bit = IF r % CycleSize = CycleSize - 1 THEN 1 ELSE 0]

\* ed_double_and_add on one row: add_gadget, double_gadget and the selects
WriteDoubleAndAdd(row) ==
    LET add_gadget == ed_add(row.result, row.temp)
        double_gadget == ed_double(row.temp)
    IN  [row EXCEPT !.add_result = add_gadget,
                    !.double_result = double_gadget,
                    !.result_next = <<Select(row.bit, add_gadget[1], row.result[1]),
                                      Select(row.bit, add_gadget[2], row.result[2])>>]

\* temp_next is the result register of the double gadget
temp_next(row) == row.double_result

\* the four set_to_expression_transition writes of row r into row r + 1;
\* a transition instruction writes nothing on the last row of the trace
WriteTransition(trace, r) ==
    IF r = SmRows - 1 THEN trace
    ELSE LET flag_bit == trace[r + 1].start_bit
         IN  [trace EXCEPT ![r + 1].result =
                                BlendPoint(flag_bit, trace[r + 1].result, trace[r].result_next),
                           ![r + 1].temp =
                                BlendPoint(flag_bit, trace[r + 1].temp, temp_next(trace[r]))]

\* write_row_instructions on row r: the instructions in registration order
write_row_instructions(trace, r) ==
    LET local == WriteDoubleAndAdd(WriteCycle(trace[r], r))
    IN  WriteTransition([trace EXCEPT ![r] = local], r)

\* the constraint of one transition assignment: the column of the next row
\* minus the value assigned to it
TransitionConstraint(flag, next, fresh) == FSub(next, Blend(flag, next, fresh))

\* the constraints of the four transition assignments on the window (r, r + 1)
TransitionConstraints(trace, r) ==
    LET flag_bit == trace[r + 1].start_bit
        result == trace[r + 1].result
        temp == trace[r + 1].temp
    IN  <<TransitionConstraint(flag_bit, result[1], trace[r].result_next[1]),
          TransitionConstraint(flag_bit, result[2], trace[r].result_next[2]),
          TransitionConstraint(flag_bit, temp[1], temp_next(trace[r])[1]),
          TransitionConstraint(flag_bit, temp[2], temp_next(trace[r])[2])>>

\* a worker of test_scalar_mul starts cycle k: the neutral element and the
\* point on the starting row, and the bits of its scalar
SmStartCycle(k, a, scalar) ==
    /\ sm_worker[k].pc = "new"
    /\ LET starting_row == CycleSize * k
           point == ScalarMulRef(a, generator)
           scalar_bits == biguint_to_bits_le(scalar, CycleSize, TRUE)
       IN  /\ sm_trace' = [sm_trace EXCEPT ![starting_row].result = neutral,
                                           ![starting_row].temp = point]
           /\ sm_worker' = [sm_worker EXCEPT ![k] =
                                IF scalar_bits.ok
                                THEN [pc |-> "writing", point |-> point, scalar |-> scalar,
                                      bits |-> scalar_bits.bits, i |-> 0]
                                ELSE [pc |-> "panicked", point |-> point, scalar |-> scalar,
                                      bits |-> <<>>, i |-> 0]]
           /\ sm_writers' = [sm_writers EXCEPT ![starting_row] = @ \cup {k}]
    /\ UNCHANGED notScalarMul

\* the worker writes the bit of its next row and runs the row's instructions
SmWriteRow(k) ==
    /\ sm_worker[k].pc = "writing"
    /\ LET i == sm_worker[k].i
           row == CycleSize * k + i
           with_bit == [sm_trace EXCEPT ![row].bit = sm_worker[k].bits[i + 1]]
       IN  /\ sm_trace' = write_row_instructions(with_bit, row)
           /\ sm_worker' = [sm_worker EXCEPT ![k].i = i + 1,
                                             ![k].pc = IF i + 1 = CycleSize THEN "done"
                                                       ELSE "writing"]
           /\ sm_writers' = IF row = SmRows - 1 THEN sm_writers
                            ELSE [sm_writers EXCEPT ![row + 1] = @ \cup {k}]
    /\ UNCHANGED notScalarMul

----------------------------------------------------------------------------
(* AddModStark: one row of a + b = c mod m and its two constraint          *)
(* evaluators (starky/src/arithmetic/add.rs).                               *)

\* the limb base as a field element: F::from_canonical_u32(2u32.pow(16))
pow_2 == from_canonical(Base)

\* the moduli of the additions: that of test_add_stark and larger ones
AddModuli == {3, 5, 7, U32Base - 3, U32Base - 1}

\* ArithmeticParser::add_to_rows: the row of one addition
add_to_rows(input_0, input_1, modulus) ==
    LET result == (input_0 + input_1) % modulus
        carry == (input_0 + input_1 - result) \div modulus
        carry_digits == biguint_to_16_digits_field(carry, N_LIMBS).limbs
        input_0_digits == biguint_to_16_digits_field(input_0, N_LIMBS).limbs
        input_1_digits == biguint_to_16_digits_field(input_1, N_LIMBS).limbs
        result_digits == biguint_to_16_digits_field(result, N_LIMBS).limbs
        modulus_digits == biguint_to_16_digits_field(modulus, N_LIMBS).limbs
        carry_mod_digits == biguint_to_16_digits_field(carry * modulus, N_LIMBS).limbs
        consr_polynomial == [i \in 1 .. N_LIMBS |->
                                FSub(FAdd(input_0_digits[i], input_1_digits[i]),
                                     carry_mod_digits[i])]
        aux_digits == Append(root_quotient_upto(consr_polynomial, FInverse(pow_2), N_LIMBS - 1), 0)
    IN  input_0_digits \o input_1_digits \o modulus_digits
            \o result_digits \o carry_digits \o aux_digits

\* vars.local_values[i]
LocalValue(row, i) == row[i + 1]

\* the limb sums both evaluators start with
SumMinusCarry(row, i) ==
    FSub(FSub(FAdd(LocalValue(row, i), LocalValue(row, i + N_LIMBS)),
              LocalValue(row, i + 3 * N_LIMBS)),
         FMul(LocalValue(row, 0 + 3 * N_LIMBS), LocalValue(row, i + 2 * N_LIMBS)))

\* AddModStark::eval_packed_generic: the constraints for i = 0 .. N_LIMBS - 1
eval_packed_generic(row) ==
    LET auxillary(i) ==
            IF i = 0 THEN FNeg(FMul(LocalValue(row, 2 * N_LIMBS + 3 * N_LIMBS), pow_2))
            ELSE IF i < N_LIMBS - 1
            THEN FSub(LocalValue(row, i - 1 + 2 * N_LIMBS + 3 * N_LIMBS),
                      FMul(LocalValue(row, i + 2 * N_LIMBS + 3 * N_LIMBS), pow_2))
            ELSE LocalValue(row, N_LIMBS - 1 + 2 * N_LIMBS + 3 * N_LIMBS)
    IN  [k \in 1 .. N_LIMBS |-> FSub(SumMinusCarry(row, k - 1), auxillary(k - 1))]

\* AddModStark::eval_ext_circuit: the constraints for i = 0 .. N_LIMBS - 1
eval_ext_circuit(row) ==
    LET neg_one == FNeg(1)
        auxilary(i) ==
            IF i = 0 THEN FMul(neg_one, FMul(LocalValue(row, 2 * N_LIMBS + 3 * N_LIMBS), pow_2))
            ELSE IF i < N_LIMBS - 1
            THEN FSub(LocalValue(row, i + 1 + 2 * N_LIMBS + 3 * N_LIMBS),
                      FMul(LocalValue(row, i + 2 * N_LIMBS + 3 * N_LIMBS), pow_2))
            ELSE LocalValue(row, N_LIMBS - 1 + 2 * N_LIMBS + 3 * N_LIMBS)
    IN  [k \in 1 .. N_LIMBS |-> FSub(SumMinusCarry(row, k - 1), auxilary(k - 1))]

AmInit ==
    /\ \E modulus \in AddModuli : \E a \in 0 .. modulus - 1, b \in 0 .. modulus - 1 :
            am_row = add_to_rows(a, b, modulus)
    /\ am_packed = <<>>
    /\ am_circuit = <<>>
    /\ am_pc = "start"

AmIdle == am_row = <<>> /\ am_packed = <<>> /\ am_circuit = <<>> /\ am_pc = "idle"

\* the native prover evaluates the constraints of the row
AmEvalPacked ==
    /\ am_pc \in {"start", "circuit"}
    /\ am_packed' = eval_packed_generic(am_row)
    /\ am_pc' = IF am_pc = "start" THEN "packed" ELSE "both"
    /\ UNCHANGED <<am_row, am_circuit, notAddMod>>

\* the recursive verifier evaluates the constraints of the same row
AmEvalCircuit ==
    /\ am_pc \in {"start", "packed"}
    /\ am_circuit' = eval_ext_circuit(am_row)
    /\ am_pc' = IF am_pc = "start" THEN "circuit" ELSE "both"
    /\ UNCHANGED <<am_row, am_packed, notAddMod>>

----------------------------------------------------------------------------
(* ArithmeticExpressionSlice::eval and Constraint::eval on one row          *)
(* (curta/src/chip/constraint).                                             *)

\* MemorySlice::Local(start, len) inside a row of ExWidth cells
Slices == {s \in (0 .. ExWidth - 1) \X (1 .. ExWidth) : s[1] + s[2] <= ExWidth}

\* the constant vectors of the expressions: one of each length, and <<2>>
ConstVectors ==
    {[i \in 1 .. n |-> IF i % 2 = 1 THEN 1 ELSE FieldOrder - 1] : n \in 1 .. ExWidth} \cup {<<2>>}

\* the variants of ArithmeticExpressionSlice
Leaves ==
    {[op |-> "Input", input |-> s] : s \in Slices}
        \cup {[op |-> "Const", constants |-> c] : c \in ConstVectors}
Binary(L, R) == {[op |-> o, left |-> l, right |-> r] : o \in {"Add", "Sub", "Mul"}, l \in L, r \in R}
ScalarMul(E) == {[op |-> "ScalarMul", scalar |-> 3, expr |-> e] : e \in E}

\* the expressions of the model: at most two operations deep
Expressions ==
    LET shallow == Leaves \cup Binary(Leaves, Leaves) \cup ScalarMul(Leaves)
    IN  shallow \cup Binary(shallow, Leaves)

\* the rows the parser reads
ExRows == {[i \in 1 .. ExWidth |-> i], [i \in 1 .. ExWidth |-> FieldOrder - i]}

\* input.eval_slice(parser): the cells of the slice
eval_slice(row, input) == SubSeq(row, input[1] + 1, input[1] + input[2])

\* parser.constant(x), with a variant that counts the evaluations made so far
ParserConstantCounting(x) == FAdd(from_canonical(x), Len(ex_out))
ParserConstant(x) == from_canonical(x)

\* parser.add, parser.sub and parser.mul
ParserApply(op, l, r) ==
    CASE op = "Add" -> FAdd(l, r)
      [] op = "Sub" -> FSub(l, r)
      [] op = "Mul" -> FMul(l, r)

\* left.iter().zip(right.iter()).map(op).collect(): as long as the shorter operand
Zip(op, left, right) ==
    [i \in 1 .. (IF Len(left) <= Len(right) THEN Len(left) ELSE Len(right)) |->
        ParserApply(op, left[i], right[i])]

\* ArithmeticExpressionSlice::eval
RECURSIVE ArithmeticExpressionSliceEval(_, _)
ArithmeticExpressionSliceEval(e, row) ==
    CASE e.op = "Input" -> eval_slice(row, e.input)
      [] e.op = "Const" -> [i \in 1 .. Len(e.constants) |-> ParserConstant(e.constants[i])]
      [] e.op = "Add" -> Zip("Add", ArithmeticExpressionSliceEval(e.left, row),
                             ArithmeticExpressionSliceEval(e.right, row))
      [] e.op = "Sub" -> Zip("Sub", ArithmeticExpressionSliceEval(e.left, row),
                             ArithmeticExpressionSliceEval(e.right, row))
      [] e.op = "ScalarMul" ->
            LET expr_val == ArithmeticExpressionSliceEval(e.expr, row)
            IN  [i \in 1 .. Len(expr_val) |-> FMul(expr_val[i], e.scalar)]
      [] e.op = "Mul" -> Zip("Mul", ArithmeticExpressionSliceEval(e.left, row),
                             ArithmeticExpressionSliceEval(e.right, row))

\* the size an ArithmeticExpression declares: that of its left-most leaf
RECURSIVE ExpressionSize(_)
ExpressionSize(e) ==
    CASE e.op = "Input" -> e.input[2]
      [] e.op = "Const" -> Len(e.constants)
      [] e.op = "ScalarMul" -> ExpressionSize(e.expr)
      [] OTHER -> ExpressionSize(e.left)

\* Constraint::eval: [ok, values, constraints], the vector the expression
\* evaluated to and the constraints handed to the parser.  An Arithmetic
\* constraint hands over every element; a MulInstruction asserts size 1 and
\* multiplies the constraints of its instruction (here: every cell of the
\* row must vanish) by the element
ConstraintEval(constraint, row) ==
    LET values == ArithmeticExpressionSliceEval(constraint.expression, row)
    IN  IF constraint.kind = "Arithmetic"
        THEN [ok |-> TRUE, values |-> values, constraints |-> values]
        ELSE IF ExpressionSize(constraint.expression) # 1
        THEN [ok |-> FALSE, values |-> <<>>, constraints |-> <<>>]
        ELSE [ok |-> TRUE, values |-> values,
              constraints |-> [i \in 1 .. Len(row) |-> FMul(row[i], values[1])]]

ExInit ==
    /\ ex_constraint \in [kind : {"Arithmetic", "MulInstruction"}, expression : Expressions]
    /\ ex_row \in ExRows
    /\ ex_out = <<>>

ExIdle == ex_constraint = [kind |-> "none"] /\ ex_row = <<>> /\ ex_out = <<>>

\* one evaluation of the constraint on the row, with a parser of its own
ExEvaluate ==
    /\ ex_row # <<>>
    /\ Len(ex_out) < 2
    /\ ex_out' = Append(ex_out, ConstraintEval(ex_constraint, ex_row))
    /\ UNCHANGED <<ex_constraint, ex_row, notExpression>>

----------------------------------------------------------------------------
(* EmulatedStark::generate_trace: the order of observing, committing,       *)
(* drawing the challenges and writing the extended traces                   *)
(* (starkyx/src/machine/emulated/stark.rs).                                 *)

\* rows of the range table (1 << 16 in the program)
NUM_LOOKUP_ROWS == Base

\* the statements of generate_trace, in program order
ProgramOrder ==
    <<"observe_public", "execution_traces", "commit_main", "commit_lookup",
      "observe_main", "observe_lookup", "get_challenges", "save_main", "save_lookup",
      "extended_main", "extended_lookup", "done">>

\* the statement after pc, with a variant that skips saving the challenges
\* to the main writer
StepAfterUnsaved(pc) ==
    IF pc = "get_challenges" THEN "save_lookup"
    ELSE ProgramOrder[(CHOOSE i \in 1 .. Len(ProgramOrder) : ProgramOrder[i] = pc) + 1]
StepAfter(pc) ==
    ProgramOrder[(CHOOSE i \in 1 .. Len(ProgramOrder) : ProgramOrder[i] = pc) + 1]

\* a writer before anything is written to it
NoWriter == [trace |-> <<>>, public |-> <<>>, challenges |-> <<>>, global |-> {},
             extended |-> [written |-> FALSE, challenges |-> <<>>]]

\* the sum of the elements of a sequence of field elements
RECURSIVE FieldSum(_)
FieldSum(s) == IF s = <<>> THEN 0 ELSE FAdd(Head(s), FieldSum(Tail(s)))

\* config.commit: the cap of the Merkle tree of a trace, a digest of its rows
Commit(trace) == FieldSum([r \in 1 .. Len(trace) |-> FMul(r + 1, FieldSum(trace[r]))])

\* challenger.get_n_challenges: n elements determined by what was observed
get_n_challenges(observed, n) ==
    [i \in 1 .. n |-> FAdd(FMul(FieldSum(observed), 3), i)]

\* generate_execution_traces: the main writer holds the execution trace and
\* the public values, the lookup writer the table and the multiplicities of
\* the values of the main trace and of the public values
generate_execution_traces(execution_trace, public_values) ==
    LET cells == {<<r, c>> : r \in 1 .. Len(execution_trace), c \in 1 .. Len(execution_trace[1])}
        multiplicity(i) ==
            Cardinality({x \in cells : execution_trace[x[1]][x[2]] = i})
                + Cardinality({j \in 1 .. Len(public_values) : public_values[j] = i})
    IN  [main |-> [NoWriter EXCEPT !.trace = execution_trace, !.public = public_values],
         lookup |-> [NoWriter EXCEPT
                        !.trace = [i \in 1 .. NUM_LOOKUP_ROWS |->
                                        <<from_canonical(i - 1), from_canonical(multiplicity(i - 1))>>],
                        !.public = public_values]]

\* write_extended_trace on one writer: the extended columns are computed from
\* the challenges the writer holds
write_extended_trace(writer, name) ==
    [writer EXCEPT !.extended = [written |-> TRUE, challenges |-> writer.challenges],
                   !.global = @ \cup {name}]

GtInit ==
    /\ \E n \in 0 .. GtMaxPublic : \E public_values \in [1 .. n -> 1 .. 2] :
       \E seed \in 0 .. 1, num_challenges \in 1 .. GtMaxChallenges :
            gt_input = [execution_trace |-> [r \in 1 .. 2 |-> <<(seed + r) % Base>>],
                        public_values |-> public_values,
                        num_challenges |-> num_challenges]
    /\ gt_challenger = [observed |-> <<>>, challenges |-> <<>>]
    /\ gt_commitment = [main |-> <<>>, lookup |-> <<>>]
    /\ gt_writer = [main |-> NoWriter, lookup |-> NoWriter]
    /\ gt_pc = "observe_public"

GtIdle ==
    /\ gt_input = <<>> /\ gt_challenger = <<>> /\ gt_commitment = <<>>
    /\ gt_writer = <<>> /\ gt_pc = "idle"

\* challenger.observe_elements(public_values)
GtObservePublic ==
    /\ gt_pc = "observe_public"
    /\ gt_challenger' = [gt_challenger EXCEPT !.observed = @ \o gt_input.public_values]
    /\ gt_pc' = StepAfter(gt_pc)
    /\ UNCHANGED <<gt_input, gt_commitment, gt_writer, notGenerateTrace>>

\* let (main_writer, lookup_writer) = self.generate_execution_traces(..)
GtGenerateExecutionTraces ==
    /\ gt_pc = "execution_traces"
    /\ gt_writer' = generate_execution_traces(gt_input.execution_trace, gt_input.public_values)
    /\ gt_pc' = StepAfter(gt_pc)
    /\ UNCHANGED <<gt_input, gt_challenger, gt_commitment, notGenerateTrace>>

\* self.config.commit(..) and self.lookup_config.commit(..)
GtCommit(w) ==
    /\ gt_pc = "commit_" \o w
    /\ gt_commitment' = [gt_commitment EXCEPT ![w] = <<Commit(gt_writer[w].trace)>>]
    /\ gt_pc' = StepAfter(gt_pc)
    /\ UNCHANGED <<gt_input, gt_challenger, gt_writer, notGenerateTrace>>

\* challenger.observe_cap(..) of one commitment
GtObserveCap(w) ==
    /\ gt_pc = "observe_" \o w
    /\ gt_challenger' = [gt_challenger EXCEPT !.observed = @ \o gt_commitment[w]]
    /\ gt_pc' = StepAfter(gt_pc)
    /\ UNCHANGED <<gt_input, gt_commitment, gt_writer, notGenerateTrace>>

\* let challenges = challenger.get_n_challenges(num_challenges)
GtGetChallenges ==
    /\ gt_pc = "get_challenges"
    /\ gt_challenger' = [gt_challenger EXCEPT
                            !.challenges = get_n_challenges(gt_challenger.observed,
                                                            gt_input.num_challenges)]
    /\ gt_pc' = StepAfter(gt_pc)
    /\ UNCHANGED <<gt_input, gt_commitment, gt_writer, notGenerateTrace>>

\* writer.challenges.write().unwrap().extend_from_slice(&challenges)
GtSaveChallenges(w) ==
    /\ gt_pc = "save_" \o w
    /\ gt_writer' = [gt_writer EXCEPT ![w].challenges = @ \o gt_challenger.challenges]
    /\ gt_pc' = StepAfter(gt_pc)
    /\ UNCHANGED <<gt_input, gt_challenger, gt_commitment, notGenerateTrace>>

\* generate_extended_traces: one writer's extended trace, then its global
\* values copied to the other writer
GtWriteExtended(w, other) ==
    /\ gt_pc = "extended_" \o w
    /\ LET written == write_extended_trace(gt_writer[w], w)
       IN  gt_writer' = [gt_writer EXCEPT ![w] = written, ![other].global = written.global]
    /\ gt_pc' = StepAfter(gt_pc)
    /\ UNCHANGED <<gt_input, gt_challenger, gt_commitment, notGenerateTrace>>

----------------------------------------------------------------------------
(* FpQuad::trace_row: the row of (a * b + c * d) mod p.                    *)

\* the moduli of the field parameters: like 2^255 - 19 they are below half
\* the range of NB_LIMBS limbs
QuadModuli == {3, 5, 7}

NUM_CARRY_LIMBS == NB_LIMBS
NUM_WITNESS_LOW_LIMBS == 2 * NB_LIMBS - 2
NUM_WITNESS_HIGH_LIMBS == 2 * NB_LIMBS - 2

\* Polynomial::<i64>::from_biguint_num(x, 16, num_limbs): the limbs of x
from_biguint_num(x, num_limbs) == [i \in 1 .. num_limbs |-> (x \div Pow(Base, i - 1)) % Base]

\* Polynomial<i64>: coefficientwise sum, difference and the product
IntCoeff(p, i) == IF i >= 1 /\ i <= Len(p) THEN p[i] ELSE 0
IntPolyAdd(p, q) == [i \in 1 .. PolyMax(Len(p), Len(q)) |-> IntCoeff(p, i) + IntCoeff(q, i)]
IntPolySub(p, q) == [i \in 1 .. PolyMax(Len(p), Len(q)) |-> IntCoeff(p, i) - IntCoeff(q, i)]

RECURSIVE IntConvSum(_, _, _, _)
IntConvSum(p, q, k, i) ==
    IF i > Len(p) THEN 0
    ELSE p[i] * IntCoeff(q, k - i + 1) + IntConvSum(p, q, k, i + 1)

IntPolyMul(p, q) ==
    IF p = <<>> \/ q = <<>> THEN <<>>
    ELSE [k \in 1 .. (Len(p) + Len(q) - 1) |-> IntConvSum(p, q, k, 1)]

IntPolyDegree(p) == Len(p) - 1

\* the quotient of the vanishing polynomial by (x - 2^16), over the integers
RECURSIVE int_root_quotient(_, _)
int_root_quotient(v, i) ==
    IF i = 1 THEN <<(0 - v[1]) \div Base>>
    ELSE LET prev == int_root_quotient(v, i - 1)
         IN  Append(prev, (prev[i - 1] - v[i]) \div Base)

\* extract_witness_and_shift: the quotient, every coefficient shifted by offset
extract_witness_and_shift(v, offset) ==
    IF Len(v) <= 1 THEN <<>>
    ELSE LET q == int_root_quotient(v, Len(v) - 1)
         IN  [i \in 1 .. Len(q) |-> q[i] + offset]

\* split_digits: the low and the high 16 bits of every u32 value
split_digits(w) ==
    [low |-> [i \in 1 .. Len(w) |-> from_canonical(as_u16(w[i]))],
     high |-> [i \in 1 .. Len(w) |-> from_canonical(as_u16(w[i] \div Base))]]

to_field_iter(p) == [i \in 1 .. Len(p) |-> from_int(p[i])]

\* the result and the carry, with a carry that forgets the second product
QuadResult(a, b, c, d, p) == (a * b + c * d) % p
QuadCarryOfFirstProduct(a, b, c, d, result, p) == (a * b) \div p
QuadCarry(a, b, c, d, result, p) == (a * b + c * d - result) \div p

FqNone == [ok |-> FALSE, row |-> <<>>, result |-> 0, carry |-> 0,
           witness_low |-> <<>>, witness_high |-> <<>>]

\* trace_row(a, b, c, d): the row and the result; ok tells whether every
\* debug assertion holds; carry and the witness are its local values
trace_row(a, b, c, d, p) ==
    LET result == QuadResult(a, b, c, d, p)
        carry == QuadCarry(a, b, c, d, result, p)
        p_a == from_biguint_num(a, NB_LIMBS)
        p_b == from_biguint_num(b, NB_LIMBS)
        p_c == from_biguint_num(c, NB_LIMBS)
        p_d == from_biguint_num(d, NB_LIMBS)
        p_p == from_biguint_num(p, NB_LIMBS)
        p_result == from_biguint_num(result, NB_LIMBS)
        p_carry == from_biguint_num(carry, NUM_CARRY_LIMBS)
        vanishing_poly ==
            IntPolySub(IntPolySub(IntPolyAdd(IntPolyMul(p_a, p_b), IntPolyMul(p_c, p_d)),
                                  p_result),
                       IntPolyMul(p_carry, p_p))
        witness_shifted == extract_witness_and_shift(vanishing_poly, WITNESS_OFFSET)
        witness == split_digits(witness_shifted)
    IN  [ok |-> /\ result < p
                /\ carry < 2 * p
                /\ carry * p = a * b + c * d - result
                /\ IntPolyDegree(vanishing_poly) = NUM_WITNESS_LOW_LIMBS,
         row |-> to_field_iter(p_result) \o to_field_iter(p_carry)
                 \o witness.low \o witness.high,
         result |-> result,
         carry |-> carry,
         witness_low |-> witness.low,
         witness_high |-> witness.high]

FqInit ==
    /\ fq_modulus \in QuadModuli
    /\ fq_in \in (0 .. fq_modulus - 1) \X (0 .. fq_modulus - 1)
                 \X (0 .. fq_modulus - 1) \X (0 .. fq_modulus - 1)
    /\ fq_out = FqNone

FqIdle == fq_modulus = 0 /\ fq_in = <<>> /\ fq_out = FqNone

\* one call of FpQuad::trace_row
FqTraceRow ==
    /\ fq_in # <<>>
    /\ fq_out = FqNone
    /\ fq_out' = trace_row(fq_in[1], fq_in[2], fq_in[3], fq_in[4], fq_modulus)
    /\ UNCHANGED <<fq_modulus, fq_in, notFpQuad>>

----------------------------------------------------------------------------
(* Edwards point addition: the instructions ed_add wires, the row          *)
(* write_ed_add writes and the constraints of the instructions.            *)

EaIdle ==
    /\ ea_P = <<>> /\ ea_Q = <<>> /\ ea_row = <<>> /\ ea_result = <<>>
    /\ ea_constraints = <<>> /\ ea_pc = "idle"

\* the points of the curve
OnCurve(P) ==
    (P[2] * P[2] + EdModulus * EdModulus - P[1] * P[1]) % EdModulus
        = (1 + EdD * P[1] * P[1] * P[2] * P[2]) % EdModulus
EdPoints == {P \in EdField \X EdField : OnCurve(P)}

\* the point registers of test_ed_add_row and the registers ed_add allocates
RegP == [x |-> "P.x", y |-> "P.y"]
RegQ == [x |-> "Q.x", y |-> "Q.y"]
RegR == [x |-> "R.x", y |-> "R.y"]
EaRegisters ==
    {"P.x", "P.y", "Q.x", "Q.y", "R.x", "R.y", "x_num_result", "y_num_result",
     "px_py_result", "qx_qy_result", "all_xy_result", "dxy_result"}

\* the operands of the first numerator, with a variant that crosses them
XNumOperandsCrossed(P, Q) == <<P.x, Q.x, Q.y, P.y>>
XNumOperands(P, Q) == <<P.x, Q.y, Q.x, P.y>>

\* the instructions the builder methods return
FpQuad(operands, result) ==
    [op |-> "quad", a |-> operands[1], b |-> operands[2], c |-> operands[3],
     d |-> operands[4], result |-> result]
FpMul(a, b, result) == [op |-> "mul", a |-> a, b |-> b, result |-> result]
FpMulConst(a, c, result) == [op |-> "mul_const", a |-> a, c |-> c, result |-> result]
Den(a, b, sign, result) == [op |-> "den", a |-> a, b |-> b, sign |-> sign, result |-> result]

\* ed_add(P, Q, result): the chip data, its instructions wired to registers
EcAddData(P, Q, result) ==
    [XNUM |-> FpQuad(XNumOperands(P, Q), "x_num_result"),
     YNUM |-> FpQuad(<<P.y, Q.y, P.x, Q.x>>, "y_num_result"),
     PXPY |-> FpMul(P.x, P.y, "px_py_result"),
     QXQY |-> FpMul(Q.x, Q.y, "qx_qy_result"),
     PXPYQXQY |-> FpMul("px_py_result", "qx_qy_result", "all_xy_result"),
     DXY |-> FpMulConst("all_xy_result", EdD, "dxy_result"),
     XDEN |-> Den("x_num_result", "dxy_result", TRUE, result.x),
     YDEN |-> Den("y_num_result", "dxy_result", FALSE, result.y)]

\* the order in which ed_add inserts the instructions into the chip
InstructionOrder == <<"XNUM", "YNUM", "PXPY", "QXQY", "PXPYQXQY", "DXY", "XDEN", "YDEN">>

\* a write_* call of the trace handle: the value goes to the result register
\* of the instruction and is returned
WriteResult(row, instruction, value) ==
    [row |-> [values |-> [row.values EXCEPT ![instruction.result] = value],
              written |-> Append(row.written, instruction.result)],
     result |-> value]
write_fpquad(row, a, b, c, d, instruction) == WriteResult(row, instruction, fpquad(a, b, c, d))
write_fpmul(row, a, b, instruction) == WriteResult(row, instruction, fpmul(a, b))
write_fpmul_const(row, a, instruction) ==
    WriteResult(row, instruction, fpmul_const(a, instruction.c))
write_ed_den(row, a, b, sign, instruction) ==
    WriteResult(row, instruction, ed_den(a, b, sign))

\* write_ed_add(P, Q, chip_data) on a row: the row and the point returned
write_ed_add(row, P, Q, chip_data) ==
    LET x_num == write_fpquad(row, P[1], Q[2], Q[1], P[2], chip_data.XNUM)
        y_num == write_fpquad(x_num.row, P[2], Q[2], P[1], Q[1], chip_data.YNUM)
        px_py == write_fpmul(y_num.row, P[1], P[2], chip_data.PXPY)
        qx_qy == write_fpmul(px_py.row, Q[1], Q[2], chip_data.QXQY)
        all_xy == write_fpmul(qx_qy.row, px_py.result, qx_qy.result, chip_data.PXPYQXQY)
        dxy == write_fpmul_const(all_xy.row, all_xy.result, chip_data.DXY)
        r_x == write_ed_den(dxy.row, x_num.result, dxy.result, TRUE, chip_data.XDEN)
        r_y == write_ed_den(r_x.row, y_num.result, dxy.result, FALSE, chip_data.YDEN)
    IN  [row |-> r_y.row, result |-> <<r_x.result, r_y.result>>]

\* write_ec_point of P and Q on an empty row
write_ec_points(P, Q) ==
    [values |-> [r \in EaRegisters |->
                    CASE r = "P.x" -> P[1] [] r = "P.y" -> P[2]
                      [] r = "Q.x" -> Q[1] [] r = "Q.y" -> Q[2]
                      [] OTHER -> 0],
     written |-> <<>>]

\* whether the constraint of an instruction holds on the values of a row
InstructionHolds(v, ins) ==
    CASE ins.op = "quad" -> v[ins.result] = (v[ins.a] * v[ins.b] + v[ins.c] * v[ins.d]) % EdModulus
      [] ins.op = "mul" -> v[ins.result] = (v[ins.a] * v[ins.b]) % EdModulus
      [] ins.op = "mul_const" -> v[ins.result] = (v[ins.a] * ins.c) % EdModulus
      [] ins.op = "den" ->
            (v[ins.result] * (IF ins.sign THEN 1 + v[ins.b] ELSE 1 + EdModulus - v[ins.b]))
                % EdModulus = v[ins.a]

EaInit ==
    /\ ea_P \in EdPoints
    /\ ea_Q \in EdPoints
    /\ ea_row = write_ec_points(ea_P, ea_Q)
    /\ ea_result = <<>>
    /\ ea_constraints = <<>>
    /\ ea_pc = "write"

\* handle.write_ed_add(i, &P_int, &Q_int, ed_data)
EaWrite ==
    /\ ea_pc = "write"
    /\ LET out == write_ed_add(ea_row, ea_P, ea_Q, EcAddData(RegP, RegQ, RegR))
       IN  ea_row' = out.row /\ ea_result' = out.result
    /\ ea_pc' = "eval"
    /\ UNCHANGED <<ea_P, ea_Q, ea_constraints, notEdAdd>>

\* the constraints of the chip's instructions on the row, in the chip's order
EaEval ==
    /\ ea_pc = "eval"
    /\ ea_constraints' =
            [i \in 1 .. Len(InstructionOrder) |->
                InstructionHolds(ea_row.values, EcAddData(RegP, RegQ, RegR)[InstructionOrder[i]])]
    /\ ea_pc' = "done"
    /\ UNCHANGED <<ea_P, ea_Q, ea_row, ea_result, notEdAdd>>

----------------------------------------------------------------------------
(* Shift right: set_shr(a, b, result), one round of selects per bit of b.  *)

\* bit arrays of a given length
BitArrays(n) == [1 .. n -> {0, 1}]

\* the value of a little-endian bit array
RECURSIVE BitsValue(_)
BitsValue(bits) == IF bits = <<>> THEN 0 ELSE Head(bits) + 2 * BitsValue(Tail(bits))

\* the bit a round writes above the shifted part
Vacated(bit, temp_bit) == Select(bit, bit, temp_bit)

\* one round of the loop of set_shr, on bit k (from 0) of b: what the select
\* instructions of the round make of temp; positions are counted from 1
ShrRound(temp, bit, k) ==
    LET n == Len(temp)
        num_shift_bits == 2^k
    IN  [i \in 1 .. n |->
            IF i <= n - num_shift_bits
            THEN Select(bit, temp[i + num_shift_bits], temp[i])
            ELSE Vacated(bit, temp[i])]

\* the rounds k, k + 1, .. of the loop; n - num_shift_bits is a usize and
\* the round fails when it would be negative
RECURSIVE ShrRounds(_, _, _)
ShrRounds(temp, b, k) ==
    IF k >= Len(b) THEN [ok |-> TRUE, result |-> temp]
    ELSE IF 2^k > Len(temp) THEN [ok |-> FALSE, result |-> <<>>]
    ELSE ShrRounds(ShrRound(temp, b[k + 1], k), b, k + 1)

\* set_shr followed by the writer's row instructions: the result array
set_shr(a, b) ==
    IF Len(b) > Len(a) THEN [ok |-> FALSE, result |-> <<>>] ELSE ShrRounds(a, b, 0)

ShNone == [ok |-> FALSE, result |-> <<"none">>]

ShInit ==
    /\ \E n \in 1 .. ShMaxBits : \E m \in 1 .. n :
            sh_a \in BitArrays(n) /\ sh_b \in BitArrays(m)
    /\ sh_out = ShNone

ShIdle == sh_a = <<>> /\ sh_b = <<>> /\ sh_out = ShNone

\* builder.shr(&a, &b) and writer.write_row_instructions on one row
ShWriteRow ==
    /\ sh_a # <<>>
    /\ sh_out = ShNone
    /\ sh_out' = set_shr(sh_a, sh_b)
    /\ UNCHANGED <<sh_a, sh_b, notShr>>

----------------------------------------------------------------------------
(* MulCubicGate: output = c0 * x * y in the cubic extension, num_ops       *)
(* operations per gate, with three evaluators and one generator per        *)
(* operation.                                                              *)

\* the degree of the cubic extension
CubicE == 3

\* the wires of operation i, as ranges of wire indices (from 0)
wires_ith_multiplicand_0(i) == (3 * CubicE * i) .. (3 * CubicE * i + CubicE - 1)
wires_ith_multiplicand_1(i) == (3 * CubicE * i + CubicE) .. (3 * CubicE * i + 2 * CubicE - 1)
\* the output wires, with a variant that reads the second multiplicand
wires_ith_output_overlapping(i) == (3 * CubicE * i + CubicE) .. (3 * CubicE * i + 2 * CubicE - 1)
wires_ith_output(i) == (3 * CubicE * i + 2 * CubicE) .. (3 * CubicE * i + 3 * CubicE - 1)

\* the first index of a range
RangeStart(range) == CHOOSE i \in range : \A j \in range : i <= j

\* get_cubic(range): the cubic element on the wires of a range
get_cubic(local_wires, range) ==
    [k \in 1 .. CubicE |-> local_wires[RangeStart(range) + k]]

scalar_mul_extension(a, c) == [k \in 1 .. CubicE |-> FMul(a[k], c)]

RECURSIVE Flatten(_)
Flatten(seqs) == IF seqs = <<>> THEN <<>> ELSE Head(seqs) \o Flatten(Tail(seqs))

\* eval_unfiltered: (output - (multiplicand_0 * multiplicand_1) * const_0).as_array()
eval_unfiltered(local_wires, const_0, num_ops) ==
    Flatten([j \in 1 .. num_ops |->
        LET multiplicand_0 == get_cubic(local_wires, wires_ith_multiplicand_0(j - 1))
            multiplicand_1 == get_cubic(local_wires, wires_ith_multiplicand_1(j - 1))
            output == get_cubic(local_wires, wires_ith_output(j - 1))
            computed_output == scalar_mul_extension(mul_extension(multiplicand_0, multiplicand_1),
                                                    const_0)
        IN  sub_extension(output, computed_output)])

\* eval_unfiltered_base_one: the same on base-field wires, wire by wire
eval_unfiltered_base_one(local_wires, const_0, num_ops) ==
    Flatten([j \in 1 .. num_ops |->
        LET multiplicand_0 ==
                [k \in 1 .. CubicE |-> local_wires[RangeStart(wires_ith_multiplicand_0(j - 1)) + k]]
            multiplicand_1 ==
                [k \in 1 .. CubicE |-> local_wires[RangeStart(wires_ith_multiplicand_1(j - 1)) + k]]
            output == [k \in 1 .. CubicE |-> local_wires[RangeStart(wires_ith_output(j - 1)) + k]]
            computed_output == scalar_mul_extension(mul_extension(multiplicand_0, multiplicand_1),
                                                    const_0)
        IN  sub_extension(output, computed_output)])

\* eval_unfiltered_circuit: the builder operations mul, scalar_mul and sub
eval_unfiltered_circuit(local_wires, const_0, num_ops) ==
    Flatten([j \in 1 .. num_ops |->
        LET multiplicand_0 == get_cubic(local_wires, wires_ith_multiplicand_0(j - 1))
            multiplicand_1 == get_cubic(local_wires, wires_ith_multiplicand_1(j - 1))
            output == get_cubic(local_wires, wires_ith_output(j - 1))
            mul == mul_extension(multiplicand_0, multiplicand_1)
            computed_output == scalar_mul_extension(mul, const_0)
            diff == sub_extension(output, computed_output)
        IN  diff])

\* MulCubicGenerator::run_once of operation i: the output wires are set
run_once(local_wires, const_0, i) ==
    LET multiplicand_0 == get_cubic(local_wires, wires_ith_multiplicand_0(i))
        multiplicand_1 == get_cubic(local_wires, wires_ith_multiplicand_1(i))
        output_target == wires_ith_output(i)
        computed_output == scalar_mul_extension(mul_extension(multiplicand_0, multiplicand_1),
                                                const_0)
    IN  [w \in 1 .. Len(local_wires) |->
            IF (w - 1) \in output_target
            THEN computed_output[w - RangeStart(output_target)]
            ELSE local_wires[w]]

\* the cubic elements on the wires and the constants of the gate
MgElements == {<<0, 0, 0>>, <<1, 0, 0>>, <<2, 3, 0>>, <<FieldOrder - 1, 1, 5>>}
MgConstants == {0, 1, 3, FieldOrder - 2}
MgNone == [unfiltered |-> <<"none">>, base_one |-> <<"none">>, circuit |-> <<"none">>]

MgInit ==
    /\ mg_num_ops \in 1 .. MgMaxOps
    /\ mg_const \in MgConstants
    /\ \E ops \in [1 .. mg_num_ops -> (MgElements \ {<<0, 0, 0>>, <<1, 0, 0>>})
                                       \X (MgElements \ {<<0, 0, 0>>, <<2, 3, 0>>})
                                       \X {<<0, 0, 0>>, <<2, 3, 0>>}] :
            mg_wires = Flatten([j \in 1 .. mg_num_ops |-> ops[j][1] \o ops[j][2] \o ops[j][3]])
    /\ mg_generated = {}
    /\ mg_out = MgNone

MgIdle ==
    mg_num_ops = 0 /\ mg_const = 0 /\ mg_wires = <<>> /\ mg_generated = {} /\ mg_out = MgNone

\* the generator of operation i runs, before the gate is evaluated
MgRunOnce(i) ==
    /\ i < mg_num_ops
    /\ mg_out = MgNone
    /\ i \notin mg_generated
    /\ mg_wires' = run_once(mg_wires, mg_const, i)
    /\ mg_generated' = mg_generated \cup {i}
    /\ UNCHANGED <<mg_num_ops, mg_const, mg_out, notMulGate>>

MgEvalUnfiltered ==
    /\ mg_num_ops > 0
    /\ mg_out.unfiltered = <<"none">>
    /\ mg_out' = [mg_out EXCEPT !.unfiltered = eval_unfiltered(mg_wires, mg_const, mg_num_ops)]
    /\ UNCHANGED <<mg_num_ops, mg_const, mg_wires, mg_generated, notMulGate>>

MgEvalBaseOne ==
    /\ mg_num_ops > 0
    /\ mg_out.base_one = <<"none">>
    /\ mg_out' = [mg_out EXCEPT !.base_one =
                        eval_unfiltered_base_one(mg_wires, mg_const, mg_num_ops)]
    /\ UNCHANGED <<mg_num_ops, mg_const, mg_wires, mg_generated, notMulGate>>

MgEvalCircuit ==
    /\ mg_num_ops > 0
    /\ mg_out.circuit = <<"none">>
    /\ mg_out' = [mg_out EXCEPT !.circuit =
                        eval_unfiltered_circuit(mg_wires, mg_const, mg_num_ops)]
    /\ UNCHANGED <<mg_num_ops, mg_const, mg_wires, mg_generated, notMulGate>>

----------------------------------------------------------------------------
(* biguint_to_bits_le as a function of its own: one call per behaviour.    *)

BlNone == [ok |-> FALSE, bits |-> <<"none">>]

BlInit ==
    /\ bl_num_bits \in 0 .. BlMaxBits
    /\ bl_integer \in 0 .. (2^bl_num_bits - 1)
    /\ bl_debug \in BOOLEAN
    /\ bl_out = BlNone

BlIdle == bl_num_bits = 0 /\ bl_integer = 0 /\ bl_debug = FALSE /\ bl_out = <<>>

\* one call of biguint_to_bits_le, in a debug or in a release build
BlConvert ==
    /\ bl_out = BlNone
    /\ bl_out' = biguint_to_bits_le(bl_integer, bl_num_bits, bl_debug)
    /\ UNCHANGED <<bl_num_bits, bl_integer, bl_debug, notBits>>

----------------------------------------------------------------------------
(* EmulatedStark: what the prover and the two verifiers feed their          *)
(* challengers (starkyx/src/machine/emulated/stark.rs).                     *)

\* nothing committed or proved yet
EsNone == <<>>

\* challenger.observe_elements and challenger.observe_cap: the challenger is
\* the sequence of what it was fed
observe_elements(challenger, values) == Append(challenger, <<"observe_elements", values>>)
observe_cap(challenger, cap) == Append(challenger, <<"observe_cap", cap>>)

\* the field elements a challenger has absorbed before the AIR challenges are drawn
RECURSIVE Observed(_)
Observed(challenger) ==
    IF challenger = <<>> THEN <<>> ELSE Head(challenger)[2] \o Observed(Tail(challenger))

\* challenger.get_n_challenges(num_challenges): the draw and the drawn elements
draw_challenges(challenger, n) ==
    [challenger |-> Append(challenger, <<"get_n_challenges", n>>),
     challenges |-> get_n_challenges(Observed(challenger), n)]

\* the IOP challenges of one proof (prove_with_trace on the prover's side,
\* get_iop_challenges and get_iop_challenges_target on the verifiers')
iop_challenges(challenger, proof) == Append(challenger, <<"iop", proof>>)

\* generate_extended_traces: the main writer's extended trace, its global
\* values copied to the lookup writer, the lookup writer's extended trace,
\* its global values copied back; with a variant that does not copy back
generate_extended_traces_uncopied(writer) ==
    LET main == write_extended_trace(writer.main, "main")
        lookup == write_extended_trace([writer.lookup EXCEPT !.global = main.global], "lookup")
    IN  [main |-> main, lookup |-> lookup]
generate_extended_traces(writer) ==
    LET main == write_extended_trace(writer.main, "main")
        lookup == write_extended_trace([writer.lookup EXCEPT !.global = main.global], "lookup")
    IN  [main |-> [main EXCEPT !.global = lookup.global], lookup |-> lookup]

\* the cap of the commitment to the extended columns of a writer, which are
\* computed from the challenges the writer held
ExtendedCap(writer) == <<Commit(<<writer.extended.challenges>>)>>

\* generate_trace: the challenger after it and the two AirCommitments
generate_trace(execution_trace, public_values, num_challenges, challenger) ==
    LET observed_public == observe_elements(challenger, public_values)
        writers == generate_execution_traces(execution_trace, public_values)
        main_execution == <<Commit(writers.main.trace)>>
        lookup_execution == <<Commit(writers.lookup.trace)>>
        observed_execution ==
            observe_cap(observe_cap(observed_public, main_execution), lookup_execution)
        drawn == draw_challenges(observed_execution, num_challenges)
        saved == [main |-> [writers.main EXCEPT !.challenges = @ \o drawn.challenges],
                  lookup |-> [writers.lookup EXCEPT !.challenges = @ \o drawn.challenges]]
        extended == generate_extended_traces(saved)
        main_global == extended.main.global
        lookup_global == extended.lookup.global
        main_extended == ExtendedCap(extended.main)
        lookup_extended == ExtendedCap(extended.lookup)
        observed_global == observe_elements(drawn.challenger, main_global)
    IN  [challenger |-> observe_cap(observe_cap(observed_global, main_extended), lookup_extended),
         main |-> [trace_commitments |-> <<main_execution, main_extended>>,
                   public_inputs |-> extended.main.public,
                   global_values |-> main_global,
                   challenges |-> extended.main.challenges],
         lookup |-> [trace_commitments |-> <<lookup_execution, lookup_extended>>,
                     public_inputs |-> extended.lookup.public,
                     global_values |-> lookup_global,
                     challenges |-> extended.lookup.challenges]]

\* what get_challenges and get_challenges_target feed their challenger
get_challenges(proof, public_values, num_challenges) ==
    LET observed_public == observe_elements(<<>>, public_values)
        observed_execution ==
            observe_cap(observe_cap(observed_public, proof.main_proof.trace_caps[1]),
                        proof.lookup_proof.trace_caps[1])
        drawn == draw_challenges(observed_execution, num_challenges)
        observed_global == observe_elements(drawn.challenger, proof.global_values)
        observed_extended ==
            observe_cap(observe_cap(observed_global, proof.main_proof.trace_caps[2]),
                        proof.lookup_proof.trace_caps[2])
    IN  iop_challenges(iop_challenges(observed_extended, "main"), "lookup")

EsInit ==
    /\ \E n \in 0 .. GtMaxPublic : \E public_values \in [1 .. n -> 1 .. 2] :
       \E seed \in 0 .. 1, num_challenges \in 1 .. GtMaxChallenges :
            es_input = [execution_trace |-> [r \in 1 .. 2 |-> <<(seed + r) % Base>>],
                        public_values |-> public_values,
                        num_challenges |-> num_challenges]
    /\ es_challenger = [prover |-> <<>>, native |-> <<>>, recursive |-> <<>>]
    /\ es_commitment = EsNone
    /\ es_proof = EsNone
    /\ es_pc = "start"

EsIdle ==
    /\ es_input = <<>> /\ es_challenger = <<>> /\ es_commitment = EsNone
    /\ es_proof = EsNone /\ es_pc = "idle"

\* prove: a new challenger, then generate_trace
EsGenerateTrace ==
    /\ es_pc = "start"
    /\ LET generated == generate_trace(es_input.execution_trace, es_input.public_values,
                                       es_input.num_challenges, <<>>)
       IN  /\ es_challenger' = [es_challenger EXCEPT !.prover = generated.challenger]
           /\ es_commitment' = [main |-> generated.main, lookup |-> generated.lookup]
    /\ es_pc' = "committed"
    /\ UNCHANGED <<es_input, es_proof, notStark>>

\* prove: prove_with_trace of the main commitment
EsProveMain ==
    /\ es_pc = "committed"
    /\ es_challenger' = [es_challenger EXCEPT !.prover = iop_challenges(@, "main")]
    /\ es_pc' = "main_proved"
    /\ UNCHANGED <<es_input, es_commitment, es_proof, notStark>>

\* prove: prove_with_trace of the lookup commitment, and the returned proof
EsProveLookup ==
    /\ es_pc = "main_proved"
    /\ es_challenger' = [es_challenger EXCEPT !.prover = iop_challenges(@, "lookup")]
    /\ es_proof' = [main_proof |-> [trace_caps |-> es_commitment.main.trace_commitments],
                    lookup_proof |-> [trace_caps |-> es_commitment.lookup.trace_commitments],
                    global_values |-> es_commitment.lookup.global_values]
    /\ es_pc' = "proved"
    /\ UNCHANGED <<es_input, es_commitment, notStark>>

\* get_challenges on the proof
EsGetChallenges ==
    /\ es_pc = "proved"
    /\ es_challenger.native = <<>>
    /\ es_challenger' = [es_challenger EXCEPT
                            !.native = get_challenges(es_proof, es_input.public_values,
                                                      es_input.num_challenges)]
    /\ UNCHANGED <<es_input, es_commitment, es_proof, es_pc, notStark>>

\* get_challenges_target on the targets set to the proof
EsGetChallengesTarget ==
    /\ es_pc = "proved"
    /\ es_challenger.recursive = <<>>
    /\ es_challenger' = [es_challenger EXCEPT
                            !.recursive = get_challenges(es_proof, es_input.public_values,
                                                         es_input.num_challenges)]
    /\ UNCHANGED <<es_input, es_commitment, es_proof, es_pc, notStark>>

----------------------------------------------------------------------------
(* BaseSumGate and its BaseSplitGenerator (src/gates/base_sum.rs).          *)

\* the bases B of the gates and the largest num_limbs
BsBases == {2, 3}
BsMaxLimbs == 3

WIRE_SUM == 0
WIRE_REVERSED_SUM == 1
WIRE_LIMBS_START == 2

\* a wire no value is set on, and no constraints evaluated yet
BsUnset == -1
BsNone == <<>>

\* the sequence in reversed order
Reversed(s) == [i \in 1 .. Len(s) |-> s[Len(s) + 1 - i]]

\* reduce_with_powers(terms, alpha): the sum of terms[i] * alpha^i
RECURSIVE reduce_with_powers(_, _)
reduce_with_powers(terms, alpha) ==
    IF terms = <<>> THEN 0
    ELSE FAdd(Head(terms), FMul(alpha, reduce_with_powers(Tail(terms), alpha)))

\* (0..B).map(|i| limb - from_canonical_usize(i)).product()
RECURSIVE RangeProduct(_, _)
RangeProduct(limb, b) ==
    IF b = 0 THEN 1 ELSE FMul(RangeProduct(limb, b - 1), FSub(limb, from_canonical(b - 1)))

\* the limb wires of a row of wires
BsLimbs(wires, num_limbs) == [i \in 1 .. num_limbs |-> wires[WIRE_LIMBS_START + i - 1]]

\* BaseSumGate::eval_unfiltered: the sum, the reversed sum, one range check per
\* limb of the reversed limbs
BsEval(wires, num_limbs, b) ==
    LET sum == wires[WIRE_SUM]
        reversed_sum == wires[WIRE_REVERSED_SUM]
        limbs == BsLimbs(wires, num_limbs)
        computed_sum == reduce_with_powers(limbs, from_canonical(b))
        reversed == Reversed(limbs)
        computed_reversed_sum == reduce_with_powers(reversed, from_canonical(b))
    IN  <<FSub(computed_sum, sum), FSub(computed_reversed_sum, reversed_sum)>>
            \o [i \in 1 .. num_limbs |-> RangeProduct(reversed[i], b)]

\* (0..num_limbs).scan(sum_value, ...): the limbs, least significant first
RECURSIVE limbs_value(_, _, _)
limbs_value(acc, num_limbs, b) ==
    IF num_limbs = 0 THEN <<>> ELSE <<acc % b>> \o limbs_value(acc \div b, num_limbs - 1, b)

\* limbs_value.iter().rev().fold(0, |acc, &x| acc * B + x)
RECURSIVE FoldRev(_, _)
FoldRev(limbs, b) ==
    IF limbs = <<>> THEN 0
    ELSE FoldRev([i \in 1 .. Len(limbs) - 1 |-> limbs[i + 1]], b) * b + Head(limbs)

\* BaseSplitGenerator::run_once: the wires with the generator's values set
BsRunOnceWires(wires, num_limbs, b) ==
    LET sum_value == wires[WIRE_SUM]
        limbs == limbs_value(sum_value, num_limbs, b)
        reversed_sum == FoldRev(limbs, b)
    IN  [w \in DOMAIN wires |->
            IF w = WIRE_REVERSED_SUM THEN from_canonical(reversed_sum)
            ELSE IF w >= WIRE_LIMBS_START THEN from_canonical(limbs[w - WIRE_LIMBS_START + 1])
            ELSE wires[w]]

BsInit ==
    /\ bs_B \in BsBases
    /\ bs_num_limbs \in 1 .. BsMaxLimbs
    /\ \E sum \in 0 .. Pow(bs_B, bs_num_limbs) - 1 :
            bs_wires = [w \in 0 .. bs_num_limbs + 1 |->
                            IF w = WIRE_SUM THEN from_canonical(sum) ELSE BsUnset]
    /\ bs_out = BsNone

BsIdle == bs_B = 0 /\ bs_num_limbs = 0 /\ bs_wires = <<>> /\ bs_out = BsNone

\* the generator runs once its dependency, the sum wire, is set
BsRunOnce ==
    /\ bs_wires # <<>>
    /\ bs_wires[WIRE_REVERSED_SUM] = BsUnset
    /\ bs_wires' = BsRunOnceWires(bs_wires, bs_num_limbs, bs_B)
    /\ UNCHANGED <<bs_B, bs_num_limbs, bs_out, notBaseSum>>

\* one call of eval_unfiltered on the generated wires
BsEvalUnfiltered ==
    /\ bs_wires # <<>>
    /\ bs_wires[WIRE_REVERSED_SUM] # BsUnset
    /\ bs_out = BsNone
    /\ bs_out' = BsEval(bs_wires, bs_num_limbs, bs_B)
    /\ UNCHANGED <<bs_B, bs_num_limbs, bs_wires, notBaseSum>>

----------------------------------------------------------------------------
(* ArithmeticStark::generate_trace: the workers that compute the rows and   *)
(* the channel that collects them (starky/src/arithmetic/arithmetic_stark.rs). *)

\* the longest program, the operations, and L::NUM_ARITHMETIC_COLUMNS
ArMaxOps == 3
ArOps == {1, 2}
ArColumns == 2

\* trace_cols before the transposition
ArNone == <<>>

\* L::TABLE_INDEX, with L::ENTRY_COLUMN = 0, and Self::num_columns()
TABLE_INDEX == ArColumns
ArNumColumns == 1 + 3 * ArColumns

\* ArithmeticParser::op_trace_row(op): the row of an operation
op_trace_row(op) == [c \in 1 .. ArColumns |-> from_canonical(op + c - 1)]

\* what worker i sends: its row followed by the table value i
WorkerMessage(i, op) == <<i, Append(op_trace_row(op), from_canonical(i))>>

\* trace_rows[i].append(&mut row), with a variant that fills the rows in the
\* order of arrival
ArPlaceInArrivalOrder(trace_rows, message) ==
    LET i == CHOOSE k \in DOMAIN trace_rows :
                trace_rows[k] = <<>> /\ \A j \in DOMAIN trace_rows : j < k => trace_rows[j] # <<>>
    IN  [trace_rows EXCEPT ![i] = @ \o message[2]]
ArPlace(trace_rows, message) ==
    [trace_rows EXCEPT ![message[1]] = @ \o message[2]]

\* transpose(&trace_rows) and the resize to num_columns() columns; the
\* columns after the table column are left for the permuted columns
ArTranspose(trace_rows) ==
    LET num_rows == Cardinality(DOMAIN trace_rows)
        width == IF num_rows = 0 THEN 0 ELSE Len(trace_rows[0])
    IN  [c \in 0 .. ArNumColumns - 1 |->
            IF c < width THEN [r \in 1 .. num_rows |-> trace_rows[r - 1][c + 1]] ELSE <<>>]

ArInit ==
    /\ \E n \in 0 .. ArMaxOps : ar_program \in [0 .. n - 1 -> ArOps]
    /\ ar_spawned = 0
    /\ ar_worker = [i \in DOMAIN ar_program |-> "unspawned"]
    /\ ar_channel = <<>>
    /\ ar_trace_rows = [i \in DOMAIN ar_program |-> <<>>]
    /\ ar_trace_cols = ArNone
    /\ ar_pc = "spawning"

ArIdle ==
    /\ ar_program = <<>> /\ ar_spawned = 0 /\ ar_worker = <<>> /\ ar_channel = <<>>
    /\ ar_trace_rows = <<>> /\ ar_trace_cols = ArNone /\ ar_pc = "idle"

\* the loop over the program: tx.clone() and rayon::spawn of the next worker
ArSpawn ==
    /\ ar_pc = "spawning"
    /\ ar_spawned \in DOMAIN ar_program
    /\ ar_worker' = [ar_worker EXCEPT ![ar_spawned] = "running"]
    /\ ar_spawned' = ar_spawned + 1
    /\ UNCHANGED <<ar_program, ar_channel, ar_trace_rows, ar_trace_cols, ar_pc, notArithmetic>>

\* drop(tx) after the loop
ArDropTx ==
    /\ ar_pc = "spawning"
    /\ ar_spawned \notin DOMAIN ar_program
    /\ ar_pc' = "receiving"
    /\ UNCHANGED <<ar_program, ar_spawned, ar_worker, ar_channel, ar_trace_rows, ar_trace_cols,
                   notArithmetic>>

\* worker i computes its row and sends it
ArWorkerSend(i) ==
    /\ ar_pc # "idle"
    /\ i \in DOMAIN ar_worker
    /\ ar_worker[i] = "running"
    /\ ar_channel' = Append(ar_channel, WorkerMessage(i, ar_program[i]))
    /\ ar_worker' = [ar_worker EXCEPT ![i] = "sent"]
    /\ UNCHANGED <<ar_program, ar_spawned, ar_trace_rows, ar_trace_cols, ar_pc, notArithmetic>>

\* the closure of worker i returns, which drops its clone of tx
ArWorkerExit(i) ==
    /\ ar_pc # "idle"
    /\ i \in DOMAIN ar_worker
    /\ ar_worker[i] = "sent"
    /\ ar_worker' = [ar_worker EXCEPT ![i] = "exited"]
    /\ UNCHANGED <<ar_program, ar_spawned, ar_channel, ar_trace_rows, ar_trace_cols, ar_pc,
                   notArithmetic>>

\* rx.recv() returns a message: the row is appended to trace_rows[i]
ArRecv ==
    /\ ar_pc = "receiving"
    /\ ar_channel # <<>>
    /\ ar_trace_rows' = ArPlace(ar_trace_rows, Head(ar_channel))
    /\ ar_channel' = Tail(ar_channel)
    /\ UNCHANGED <<ar_program, ar_spawned, ar_worker, ar_trace_cols, ar_pc, notArithmetic>>

\* rx.recv() returns Err: the channel is empty and every sender is dropped;
\* the loop ends and the rows are transposed
ArRecvDisconnected ==
    /\ ar_pc = "receiving"
    /\ ar_channel = <<>>
    /\ \A i \in DOMAIN ar_worker : ar_worker[i] = "exited"
    /\ ar_trace_cols' = ArTranspose(ar_trace_rows)
    /\ ar_pc' = "done"
    /\ UNCHANGED <<ar_program, ar_spawned, ar_worker, ar_channel, ar_trace_rows, notArithmetic>>

----------------------------------------------------------------------------
(* AirBuilder::bytes_lookup: the registers of the ByteLookup                *)
(* (curta/src/chip/uint/bytes/operations.rs).                               *)

\* the largest cursor the builder holds when bytes_lookup is called
ByMaxStart == 5

NUM_BIT_OPS == 6
NUM_CHALLENGES == 1 + 8 * 3 + 1
\* the bits of a byte and the ByteRegisters of results
ByBits == 8

\* a field of the ByteLookup that is not allocated yet
ByNone == <<>>

\* the statements of bytes_lookup, in program order
BytesLookupOrder ==
    <<"a", "b", "results", "a_bits", "b_bits", "results_bits", "carry_bits", "challenges",
      "opcodes", "digests", "done">>
ByStepAfter(pc) ==
    BytesLookupOrder[(CHOOSE i \in 1 .. Len(BytesLookupOrder) : BytesLookupOrder[i] = pc) + 1]

\* [value; n]: the operand is evaluated once and copied n times
ArrayRepeat(value, n) == [i \in 1 .. n |-> value]

\* the columns one call allocates for each field, in `memory`
ByAllocation(pc) ==
    CASE pc \in {"a", "b", "carry_bits", "opcodes"} -> [memory |-> "local", size |-> 1]
      [] pc \in {"results", "a_bits", "b_bits", "results_bits"} ->
            [memory |-> "local", size |-> ByBits]
      [] pc = "challenges" -> [memory |-> "challenge", size |-> CubicE * NUM_CHALLENGES]
      [] pc = "digests" -> [memory |-> "extended", size |-> CubicE]

\* what the statement stores in its field, given the register its call returned
ByField(pc, register) ==
    IF pc \in {"results_bits", "carry_bits", "opcodes"} THEN ArrayRepeat(register, NUM_BIT_OPS)
    ELSE register

ByInit ==
    /\ by_index \in [local : 0 .. ByMaxStart, challenge : 0 .. 1, extended : 0 .. 1]
    /\ by_lookup = [f \in {"a", "b", "results", "a_bits", "b_bits", "results_bits",
                           "carry_bits", "challenges", "opcodes", "digests"} |-> ByNone]
    /\ by_pc = "a"

ByIdle == by_index = <<>> /\ by_lookup = <<>> /\ by_pc = "idle"

\* one statement that allocates a register (or an array) and stores it
ByAlloc ==
    /\ by_pc \in {"a", "b", "results", "a_bits", "b_bits", "results_bits", "carry_bits",
                  "challenges", "opcodes"}
    /\ LET allocation == ByAllocation(by_pc)
           register == Local(by_index[allocation.memory], allocation.size)
       IN  /\ by_lookup' = [by_lookup EXCEPT ![by_pc] = ByField(by_pc, register)]
           /\ by_index' = [by_index EXCEPT ![allocation.memory] = @ + allocation.size]
    /\ by_pc' = ByStepAfter(by_pc)
    /\ UNCHANGED notBytesLookup

\* the digests: one call of accumulate, which allocates its digest, for each
\* pair of an opcode and a result
ByAccumulate ==
    /\ by_pc = "digests"
    /\ LET pairs == IF NUM_BIT_OPS < ByBits THEN NUM_BIT_OPS ELSE ByBits
           size == ByAllocation(by_pc).size
       IN  /\ by_lookup' = [by_lookup EXCEPT
                                !.digests = [i \in 1 .. pairs |->
                                                Local(by_index.extended + (i - 1) * size, size)]]
           /\ by_index' = [by_index EXCEPT !.extended = @ + pairs * size]
    /\ by_pc' = ByStepAfter(by_pc)
    /\ UNCHANGED notBytesLookup

----------------------------------------------------------------------------
(* Claims. *)

\* a field element read as the signed integer of least absolute value
Signed(c) == IF 2 * c > FieldOrder THEN c - FieldOrder ELSE c

RECURSIVE IntEvalAt(_, _)
IntEvalAt(p, x) == IF p = <<>> THEN 0 ELSE Signed(Head(p)) + x * IntEvalAt(Tail(p), x)

\* the i-th little-endian limb of x (i from 1)
LimbOf(x, i) == (x \div Pow(Base, i - 1)) % Base

\* C1: for all a, b < modulus, FpAddInstruction::write ends normally, the
\* result register holds (a + b) mod modulus, and the instruction's
\* constraint evaluated on the written row is the zero vector.
C1_FpAddWriteSatisfiesEval ==
    fp_pc \in {"written", "panicked"} =>
        /\ fp_pc = "written"
        /\ RegAsBigUint(fp_row, RegResult) = (fp_a + fp_b) % fp_modulus
        /\ \A i \in 1 .. NB_LIMBS : ReadReg(fp_row, RegResult)[i] < Base
        /\ Len(FpAddEval(fp_row, fp_modulus)) = NB_WITNESS_LIMBS + 1
        /\ IsZeroVector(FpAddEval(fp_row, fp_modulus))

\* a written row whose addition wrapped around the modulus (carry = 1)
C1_Witness ==
    /\ fp_pc = "written"
    /\ fp_a + fp_b >= fp_modulus
    /\ RegAsBigUint(fp_row, RegCarry) = 1

\* C2: build() panics, and returns no chip, when the arithmetic, free or
\* extended column count it measures exceeds its budget; when every count is
\* at most its budget it returns the chip, having printed one warning for
\* each strictly under-used budget and nothing else.
C2_BuildEnforcesBudgets ==
    b_pc \in {"built", "panicked"} =>
        IF \/ num_arithmetic_columns > NUM_ARITHMETIC_COLUMNS
           \/ num_free_columns > NUM_FREE_COLUMNS
           \/ num_extended_columns > EXTENDED_COLUMNS
        THEN b_pc = "panicked" /\ b_chip = NoChip /\ b_panic # NoPanic
        ELSE /\ b_pc = "built"
             /\ b_panic = NoPanic
             /\ b_chip.execution_trace_length = local_index
             /\ b_chip.instructions = instructions
             /\ \A w \in b_warnings : w.unused > 0
             /\ {w.budget : w \in b_warnings} =
                    {k \in {"free", "arithmetic", "extended"} :
                        \/ k = "free" /\ num_free_columns < NUM_FREE_COLUMNS
                        \/ k = "arithmetic" /\ num_arithmetic_columns < NUM_ARITHMETIC_COLUMNS
                        \/ k = "extended" /\ num_extended_columns < EXTENDED_COLUMNS}

\* build() panicked on one arithmetic column more than the budget, the other
\* two counts being within theirs
C2_Witness ==
    /\ b_pc = "panicked"
    /\ NUM_ARITHMETIC_COLUMNS > 0
    /\ num_arithmetic_columns = NUM_ARITHMETIC_COLUMNS + 1
    /\ num_free_columns <= NUM_FREE_COLUMNS
    /\ num_extended_columns <= EXTENDED_COLUMNS

\* C3: the vanishing polynomial V = a + b - c - carry * m of a valid
\* quadruple has the root 2^16 (in the field and over the integers), and the
\* root quotient Q, before the offset is added, has one coefficient fewer
\* than V and satisfies Q(x) * (x - 2^16) = V(x) coefficient by coefficient.
C3_RootQuotientExact ==
    fp_pc = "written" =>
        /\ p_vanishing_eval(fp_vanishing) = 0
        /\ IntEvalAt(fp_vanishing, Base) = 0
        /\ Len(fp_quotient) = Len(fp_vanishing) - 1
        /\ PolyMul(fp_quotient, x_minus_root) = fp_vanishing

\* a written row with a non-zero vanishing polynomial and quotient
C3_Witness ==
    /\ fp_pc = "written"
    /\ ~IsZeroVector(fp_vanishing)
    /\ ~IsZeroVector(fp_quotient)
    /\ ~fp_debug

\* C4: when some coefficient of the root quotient lies outside the offset
\* window, compute_root_quotient_and_shift fails: it returns no shifted
\* witness vector, whatever the build mode.
C4_OutOfWindowFails ==
    (rq_pc \in {"returned", "panicked"} /\ ~AllInWindow(rq_out.quotient, rq_offset))
        => rq_pc = "panicked"

\* C5: every x that fits in num_digits limbs survives the round trip
\* digits_to_biguint(bigint_into_u16_digits(x, num_digits)).
C5_RoundTrip ==
    (lim_x < Pow(Base, lim_n) /\ lim_pc \in {"panicked", "done"})
        => (lim_pc = "done" /\ lim_back = lim_x)

\* C6: bigint_into_u16_digits(x, n) returns exactly n little-endian limbs,
\* zero-padded, for every x < 2^(16 n), and panics exactly when x >= 2^(16 n).
C6_ExactLimbsOrPanic ==
    lim_pc \in {"converted", "panicked"} =>
        IF lim_x < Pow(Base, lim_n)
        THEN /\ lim_out.ok
             /\ Len(lim_out.limbs) = lim_n
             /\ \A i \in 1 .. lim_n : lim_out.limbs[i] = LimbOf(lim_x, i)
        ELSE ~lim_out.ok

\* C7: on a trace on which every lookup constraint vanished, after one queried
\* value is changed to a value absent from the table and the prover has
\* recomputed the row accumulators, the running accumulator and the digest,
\* some constraint emitted for the lookup is non-zero (for every challenge
\* that differs from the new value).
C7_ForgedValueDetected ==
    lk_pc = "forged" => ~AllLookupConstraintsVanish(lk_trace, lk_beta, lk_digests)

\* the log-derivative contribution of table row r: the sum over the table
\* entries of multiplicity / (beta - table)
TableContribution(r) ==
    CubicSum([k \in 1 .. LkTables |->
                CubicDiv(element_from_base_field(lk_trace[r].multiplicities[k]),
                         sub_extension(lk_beta, element_from_base_field(lk_trace[r].table[k])))])

\* C10: the columns written by write_log_lookup_table make every constraint
\* of LookupTable::eval vanish on every row: multiplicity = table_log *
\* (beta - table) for every table entry, the accumulator of the first row is
\* the contribution of that row, each later accumulator is its predecessor
\* plus the contribution of its own row, and the digest is the accumulator
\* of the last row.
C10_TableColumnsSatisfyEval ==
    lk_pc \in {"table", "values", "satisfied", "unsatisfied", "forged"} =>
        /\ \A r \in 1 .. LkRows :
                Vanishes(LookupTableEval(lk_trace, lk_beta, lk_digests, r))
        /\ \A r \in 1 .. LkRows : \A k \in 1 .. LkTables :
                element_from_base_field(lk_trace[r].multiplicities[k]) =
                    mul_extension(lk_trace[r].multiplicities_table_log[k],
                                  sub_extension(lk_beta,
                                                element_from_base_field(lk_trace[r].table[k])))
        /\ lk_trace[1].table_accumulator = TableContribution(1)
        /\ \A r \in 1 .. LkRows - 1 :
                lk_trace[r + 1].table_accumulator =
                    add_extension(lk_trace[r].table_accumulator, TableContribution(r + 1))
        /\ lk_digests.table = lk_trace[LkRows].table_accumulator

\* the table side is written, two rows contribute and one table entry was
\* queried more than once
C10_Witness ==
    /\ lk_pc = "table"
    /\ \E r \in 1 .. LkRows : lk_trace[r].multiplicities[1] >= 2
    /\ lk_trace[1].table_accumulator # zero_extension
    /\ lk_digests.table # lk_trace[1].table_accumulator

\* the rows of cycle k
FirstRow(k) == CycleSize * k
LastRow(k) == CycleSize * k + CycleSize - 1

\* whether the worker of row r has run write_row_instructions on it
RowWritten(r) ==
    LET w == sm_worker[r \div CycleSize]
    IN  w.pc \in {"writing", "done"} /\ w.i > r % CycleSize

\* whether the rows of cycle k hold the bits of s, least significant first
HoldsBitsOf(k, s) ==
    \A i \in 0 .. CycleSize - 1 : sm_trace[FirstRow(k) + i].bit = (s \div 2^i) % 2

\* C8: when the first row of a cycle holds result = neutral and temp = P, its
\* rows hold the bits of the scalar s, little-endian, and write_row_instructions
\* has run on all rows of the cycle in order, the output register result_next
\* of the cycle's last row is s * P.
C8_ScalarMulComposition ==
    \A k \in 0 .. SmCycles - 1 :
        (/\ sm_worker[k].pc = "done"
         /\ sm_trace[FirstRow(k)].result = neutral
         /\ sm_trace[FirstRow(k)].temp = sm_worker[k].point
         /\ HoldsBitsOf(k, sm_worker[k].scalar))
            => sm_trace[LastRow(k)].result_next =
                    ScalarMulRef(sm_worker[k].scalar, sm_worker[k].point)

\* a finished cycle for s = 2 and P = G whose output is 2 * G
C8_Witness ==
    \E k \in 0 .. SmCycles - 1 :
        /\ sm_worker[k].pc = "done"
        /\ sm_worker[k].scalar = 2
        /\ sm_worker[k].point = generator
        /\ sm_trace[FirstRow(k)].result = neutral
        /\ sm_trace[FirstRow(k)].temp = generator
        /\ HoldsBitsOf(k, 2)
        /\ sm_trace[LastRow(k)].result_next = ed_double(generator)
        /\ ed_double(generator) # neutral

\* the four values row r hands to its successor: result_next and temp_next
FreshValues(r) ==
    <<sm_trace[r].result_next[1], sm_trace[r].result_next[2],
      temp_next(sm_trace[r])[1], temp_next(sm_trace[r])[2]>>

\* C9: on a written row r whose successor is not the first row of a cycle the
\* transition holds result[r + 1] = result_next[r] and temp[r + 1] =
\* temp_next[r], and its constraints vanish for no other content of the next
\* row; on a row whose successor is the first row of a cycle the transition
\* constraints vanish whatever result[r + 1] and temp[r + 1] hold; and the
\* output of a finished cycle is the result of its own first row plus its own
\* scalar times the temp of its own first row.
C9_CycleBoundaryTransition ==
    /\ \A r \in 0 .. SmRows - 2 :
            (RowWritten(r) /\ (r + 1) % CycleSize # 0) =>
                /\ sm_trace[r + 1].result = sm_trace[r].result_next
                /\ sm_trace[r + 1].temp = temp_next(sm_trace[r])
                /\ IsZeroVector(TransitionConstraints(sm_trace, r))
                /\ \A c \in 1 .. 4 : \A x \in EdField :
                        TransitionConstraint(sm_trace[r + 1].start_bit, x, FreshValues(r)[c]) = 0
                            <=> x = FreshValues(r)[c]
    /\ \A r \in 0 .. SmRows - 2 :
            (RowWritten(r) /\ RowWritten(r + 1) /\ (r + 1) % CycleSize = 0) =>
                \A c \in 1 .. 4 : \A x \in EdField :
                    TransitionConstraint(sm_trace[r + 1].start_bit, x, FreshValues(r)[c]) = 0
    /\ \A k \in 0 .. SmCycles - 1 :
            sm_worker[k].pc = "done" =>
                sm_trace[LastRow(k)].result_next =
                    ed_add(sm_trace[FirstRow(k)].result,
                           ScalarMulRef(sm_worker[k].scalar, sm_trace[FirstRow(k)].temp))

\* two finished cycles back to back: the second started from the neutral
\* element although the first ended on another point
C9_Witness ==
    /\ \A k \in 0 .. SmCycles - 1 : sm_worker[k].pc = "done"
    /\ sm_trace[FirstRow(1)].result = neutral
    /\ sm_trace[LastRow(0)].result_next # neutral
    /\ sm_trace[LastRow(1)].result_next # sm_trace[LastRow(0)].result_next

\* the constraints LogLookup::eval adds to those of the table at row r
ValuesSideConstraints(r) ==
    LET all == LogLookupEval(lk_trace, lk_beta, lk_digests, r)
        table == LookupTableEval(lk_trace, lk_beta, lk_digests, r)
    IN  SubSeq(all, Len(table) + 1, Len(all))

\* C11: the row accumulators, the log_lookup_accumulator and the digest
\* written by write_log_lookup_values make every constraint LogLookup::eval
\* places on them vanish on every row: the first-row constraint, the
\* transition constraint and the binding of the digest to the accumulator of
\* the last row.
C11_ValuesColumnsSatisfyEval ==
    lk_pc = "values" => \A r \in 1 .. LkRows : Vanishes(ValuesSideConstraints(r))

\* the looked-up values in reading order: the value registers of every trace
\* row, then the public values
RECURSIVE LookedUpValues(_)
LookedUpValues(r) ==
    IF r = 0 THEN lk_public ELSE lk_trace[r].values \o LookedUpValues(r - 1)

\* how many of the first n entries of a sequence equal i
RECURSIVE CountOf(_, _, _)
CountOf(seq, n, i) ==
    IF n = 0 THEN 0 ELSE CountOf(seq, n - 1, i) + (IF seq[n] = i THEN 1 ELSE 0)

\* the sum of the multiplicities of the first n rows
RECURSIVE MultiplicitySum(_)
MultiplicitySum(n) ==
    IF n = 0 THEN 0 ELSE MultiplicitySum(n - 1) + lk_trace[n].multiplicities[1]

\* C12: after write_multiplicities_from_fn, when every looked-up value (every
\* value register of every trace row and every public value) has an index
\* below the number of table rows, table row j holds the number of looked-up
\* values of index j and the multiplicities sum to the number of looked-up
\* values; otherwise the call has panicked and no multiplicity is written.
C12_MultiplicitiesCountLookups ==
    lk_pc \in {"multiplicities", "panicked"} =>
        LET looked == LookedUpValues(LkRows)
        IN  IF \A n \in 1 .. Len(looked) : looked[n] < LkRows
            THEN /\ lk_pc = "multiplicities"
                 /\ \A j \in 0 .. LkRows - 1 :
                        lk_trace[j + 1].multiplicities[1] = CountOf(looked, Len(looked), j)
                 /\ MultiplicitySum(LkRows) = LkRows * LkValueRegisters + Len(lk_public)
            ELSE /\ lk_pc = "panicked"
                 /\ \A r \in 1 .. LkRows : lk_trace[r].multiplicities[1] = 0

\* the multiplicities are written, a public value was counted and one table
\* row was looked up more often than another
C12_Witness ==
    /\ lk_pc = "multiplicities"
    /\ Len(lk_public) = LkPublic
    /\ lk_trace[1].multiplicities[1] > lk_trace[2].multiplicities[1]
    /\ lk_trace[2].multiplicities[1] > 0

\* C13: once both evaluators of AddModStark have run on the same row, they
\* have produced the same constraint for every limb index.
C13_EvaluatorsAgree ==
    am_pc = "both" => \A i \in 1 .. N_LIMBS : am_packed[i] = am_circuit[i]

\* whether some Add, Sub or Mul node of e has operands that evaluate to
\* vectors of different lengths
RECURSIVE HasMismatch(_, _)
HasMismatch(e, row) ==
    CASE e.op \in {"Input", "Const"} -> FALSE
      [] e.op = "ScalarMul" -> HasMismatch(e.expr, row)
      [] OTHER -> \/ Len(ArithmeticExpressionSliceEval(e.left, row)) #
                        Len(ArithmeticExpressionSliceEval(e.right, row))
                  \/ HasMismatch(e.left, row)
                  \/ HasMismatch(e.right, row)

\* C14: the evaluation of an arithmetic constraint whose expression has an
\* Add, Sub or Mul node with operands of different lengths fails; it never
\* returns a result vector.
C14_MismatchPanics ==
    \A n \in 1 .. Len(ex_out) :
        (ex_constraint.kind = "Arithmetic" /\ HasMismatch(ex_constraint.expression, ex_row))
            => ~ex_out[n].ok

C15_WorkersWriteDisjointCells ==
    /\ \A r \in 0 .. SmRows - 1 : Cardinality(sm_writers[r]) <= 1
    /\ (\A k \in 0 .. SmCycles - 1 : sm_worker[k].pc = "done") =>
            \A k \in 0 .. SmCycles - 1 :
                /\ sm_trace[FirstRow(k)].result = neutral
                /\ sm_trace[FirstRow(k)].temp = sm_worker[k].point

\* C16: whenever challenges have been drawn, the challenger had observed
\* exactly the public values, the main commitment and the lookup commitment,
\* in this order, and the challenges are the ones drawn from them; whenever
\* the extended columns of either writer are written, both writers hold the
\* drawn challenges and the columns were computed from them.
C16_ChallengesBeforeExtended ==
    /\ gt_pc # "idle" =>
        /\ gt_challenger.challenges # <<>> =>
            /\ gt_commitment.main # <<>> /\ gt_commitment.lookup # <<>>
            /\ gt_challenger.observed =
                    gt_input.public_values \o gt_commitment.main \o gt_commitment.lookup
            /\ gt_challenger.challenges =
                    get_n_challenges(gt_challenger.observed, gt_input.num_challenges)
        /\ \A w \in {"main", "lookup"} :
                gt_writer[w].extended.written =>
                    /\ gt_challenger.challenges # <<>>
                    /\ gt_writer.main.challenges = gt_challenger.challenges
                    /\ gt_writer.lookup.challenges = gt_challenger.challenges
                    /\ gt_writer[w].extended.challenges = gt_challenger.challenges

\* generate_trace has finished on non-empty public values: both extended
\* traces are written from the same non-empty challenges
C16_Witness ==
    /\ gt_pc = "done"
    /\ gt_input.public_values # <<>>
    /\ gt_writer.main.extended.written /\ gt_writer.lookup.extended.written
    /\ Len(gt_writer.lookup.extended.challenges) = GtMaxChallenges
    /\ gt_writer.main.global = {"main", "lookup"}

\* the columns a register covers
Columns(register) == register.start .. (register.start + register.size - 1)

\* every register the caller holds, tagged with its kind and its call
HeldRegisters ==
    {<<kind, i>> : kind \in {"free"}, i \in 1 .. Len(b_registers.free)}
    \cup {<<kind, i>> : kind \in {"arithmetic"}, i \in 1 .. Len(b_registers.arithmetic)}
    \cup {<<kind, i>> : kind \in {"extended"}, i \in 1 .. Len(b_registers.extended)}
RegisterOf(call) == b_registers[call[1]][call[2]]

\* the column region of each kind of register
Region(kind) ==
    CASE kind = "arithmetic" -> 0 .. NUM_ARITHMETIC_COLUMNS - 1
      [] kind = "free" -> NUM_ARITHMETIC_COLUMNS .. NUM_ARITHMETIC_COLUMNS + NUM_FREE_COLUMNS - 1
      [] kind = "extended" -> NUM_ARITHMETIC_COLUMNS + NUM_FREE_COLUMNS
                              .. NUM_ARITHMETIC_COLUMNS + NUM_FREE_COLUMNS + EXTENDED_COLUMNS - 1

\* C17: in every run that build() accepts, the registers returned by distinct
\* allocation calls cover disjoint columns, arithmetic registers lie in
\* [0, NUM_ARITHMETIC_COLUMNS), free registers in the NUM_FREE_COLUMNS columns
\* after them and extended registers at or above their sum; the result, carry,
\* witness_low and witness_high of an FpAddInstruction overlap neither each
\* other nor the operands
C17_RegistersDisjoint ==
    b_pc = "built" =>
        /\ \A c1 \in HeldRegisters, c2 \in HeldRegisters :
                c1 # c2 => Columns(RegisterOf(c1)) \cap Columns(RegisterOf(c2)) = {}
        /\ \A c \in HeldRegisters :
                /\ RegisterOf(c).size > 0
                /\ Columns(RegisterOf(c)) \subseteq Region(c[1])
                /\ c[1] = "extended" =>
                        RegisterOf(c).start >= NUM_ARITHMETIC_COLUMNS + NUM_FREE_COLUMNS

\* an accepted build with a field addition on a held operand, a free register
\* and an extended register
C17_Witness ==
    /\ b_pc = "built"
    /\ Len(b_registers.arithmetic) >= 5
    /\ Len(b_registers.free) >= 2
    /\ Len(b_registers.extended) >= 2

\* the value of little-endian limbs
RECURSIVE LimbsValue(_)
LimbsValue(limbs) == IF limbs = <<>> THEN 0 ELSE Head(limbs) + Base * LimbsValue(Tail(limbs))

\* C19: for all a, b, c, d < p, FpQuad::trace_row returns result =
\* (a*b + c*d) mod p with a carry such that carry * p = a*b + c*d - result and
\* carry < 2p, and a witness of exactly 2*NB_LIMBS - 2 low limbs and
\* 2*NB_LIMBS - 2 high limbs; the row holds result, carry and the witness
C19_TraceRowExact ==
    fq_out # FqNone =>
        LET a == fq_in[1]
            b == fq_in[2]
            c == fq_in[3]
            d == fq_in[4]
            p == fq_modulus
        IN  /\ fq_out.ok
            /\ fq_out.result \in 0 .. p - 1
            /\ (a * b + c * d) % p = fq_out.result
            /\ fq_out.carry * p = a * b + c * d - fq_out.result
            /\ fq_out.carry < 2 * p
            /\ Len(fq_out.witness_low) = 2 * NB_LIMBS - 2
            /\ Len(fq_out.witness_high) = 2 * NB_LIMBS - 2
            /\ Len(fq_out.row) = 2 * NB_LIMBS + 2 * (2 * NB_LIMBS - 2)
            /\ LimbsValue(SubSeq(fq_out.row, 1, NB_LIMBS)) = fq_out.result
            /\ LimbsValue(SubSeq(fq_out.row, NB_LIMBS + 1, 2 * NB_LIMBS)) = fq_out.carry

\* a row whose two products both matter and whose carry exceeds the modulus
C19_Witness ==
    /\ fq_out # FqNone
    /\ fq_in[1] * fq_in[2] > fq_modulus
    /\ fq_in[3] * fq_in[4] > fq_modulus
    /\ fq_out.carry > fq_modulus
    /\ fq_out.result > 0

\* C20: write_ed_add(P, Q) computes, and ed_add constrains with the same
\* operand wiring and the same order of sub-instructions, x_num = Px*Qy +
\* Qx*Py, y_num = Py*Qy + Px*Qx, dxy = D*(Px*Py)*(Qx*Qy), R.x = x_num/(1 + dxy)
\* and R.y = y_num/(1 - dxy) modulo p; adding the identity (0, 1) to a curve
\* point P returns P
C20_EdAddWiring ==
    ea_pc = "done" =>
        LET v == ea_row.values
            chip == EcAddData(RegP, RegQ, RegR)
            Px == ea_P[1]
            Py == ea_P[2]
            Qx == ea_Q[1]
            Qy == ea_Q[2]
            dxy == (EdD * Px * Py * Qx * Qy) % EdModulus
        IN  /\ \A i \in 1 .. Len(ea_constraints) : ea_constraints[i]
            /\ ea_row.written = [i \in 1 .. Len(InstructionOrder) |-> chip[InstructionOrder[i]].result]
            /\ v["x_num_result"] = (Px * Qy + Qx * Py) % EdModulus
            /\ v["y_num_result"] = (Py * Qy + Px * Qx) % EdModulus
            /\ v["dxy_result"] = dxy
            /\ (v["R.x"] * (1 + dxy)) % EdModulus = v["x_num_result"]
            /\ (v["R.y"] * (1 + EdModulus - dxy)) % EdModulus = v["y_num_result"]
            /\ ea_result = <<v["R.x"], v["R.y"]>>
            /\ ea_result \in EdPoints
            /\ ea_Q = neutral => ea_result = ea_P
            /\ ea_P = neutral => ea_result = ea_Q

\* the row of test_ed_add_row: the base point plus the identity
C20_Witness ==
    /\ ea_pc = "done"
    /\ ea_P = generator
    /\ ea_Q = neutral
    /\ ea_result = generator

\* C21: for every n-bit array a and every m-bit shift amount b with m <= n,
\* the result array of shr/set_shr is the logical right shift of a by the
\* value of b: result[i] = a[i + value(b)] when i + value(b) < n and 0
\* otherwise (positions from 0)
C21_ShrIsLogicalShift ==
    sh_out # ShNone =>
        /\ sh_out.ok
        /\ sh_out.result =
                [i \in 1 .. Len(sh_a) |->
                    IF i + BitsValue(sh_b) <= Len(sh_a) THEN sh_a[i + BitsValue(sh_b)] ELSE 0]

\* the cubic element on three consecutive wires (index from 0)
WiresAt(start) == <<mg_wires[start + 1], mg_wires[start + 2], mg_wires[start + 3]>>

\* output_i - c0 * (x_i * y_i), computed from the wire layout 9i, 9i + 3, 9i + 6
ExpectedMulConstraints(i) ==
    LET xy == mul_extension(WiresAt(9 * i), WiresAt(9 * i + 3))
    IN  [k \in 1 .. 3 |-> FSub(WiresAt(9 * i + 6)[k], FMul(mg_const, xy[k]))]

\* C22: on every wire assignment the three evaluators of MulCubicGate yield
\* the same constraints, for each operation i the components of
\* output_i - c0 * (x_i * y_i), and the output MulCubicGenerator writes for
\* operation i makes the constraints of operation i zero
C22_MulGateEvaluatorsAgree ==
    /\ mg_out.unfiltered # <<"none">> =>
            /\ Len(mg_out.unfiltered) = 3 * mg_num_ops
            /\ \A i \in 0 .. mg_num_ops - 1 :
                    /\ SubSeq(mg_out.unfiltered, 3 * i + 1, 3 * i + 3) = ExpectedMulConstraints(i)
                    /\ i \in mg_generated =>
                            SubSeq(mg_out.unfiltered, 3 * i + 1, 3 * i + 3) = <<0, 0, 0>>
    /\ mg_out.unfiltered # <<"none">> /\ mg_out.base_one # <<"none">> =>
            mg_out.unfiltered = mg_out.base_one
    /\ mg_out.unfiltered # <<"none">> /\ mg_out.circuit # <<"none">> =>
            mg_out.unfiltered = mg_out.circuit
    /\ mg_out.base_one # <<"none">> /\ mg_out.circuit # <<"none">> =>
            mg_out.base_one = mg_out.circuit

\* a gate of two operations, one generated and one with a wrong output, all
\* three evaluators run
C22_Witness ==
    /\ mg_num_ops = 2
    /\ mg_generated = {1}
    /\ mg_out.unfiltered # <<"none">> /\ mg_out.base_one # <<"none">>
    /\ mg_out.circuit # <<"none">>
    /\ SubSeq(mg_out.unfiltered, 1, 3) # <<0, 0, 0>>
    /\ mg_const > 1

\* C23: for every num_bits and every integer x < 2^num_bits,
\* biguint_to_bits_le(x, num_bits) returns exactly num_bits bits,
\* little-endian, whose weighted sum (bit_i * 2^i) equals x
C23_BitsExact ==
    bl_out # BlNone /\ bl_out # <<>> =>
        /\ bl_out.ok
        /\ Len(bl_out.bits) = bl_num_bits
        /\ BitsValue(bl_out.bits) = bl_integer

\* the columns of a register of the row
RegColumns(reg) == reg.start .. (reg.start + reg.len - 1)

\* the cells of the registers of a layout, one register after the other
RECURSIVE LayoutCells(_, _)
LayoutCells(row, regs) ==
    IF regs = <<>> THEN <<>> ELSE ReadReg(row, Head(regs)) \o LayoutCells(row, Tail(regs))

DeclaredBudget(kind) ==
    CASE kind = "free" -> NUM_FREE_COLUMNS
      [] kind = "arithmetic" -> NUM_ARITHMETIC_COLUMNS
      [] kind = "extended" -> EXTENDED_COLUMNS
AllocatedColumns(kind) ==
    CASE kind = "free" -> num_free_columns
      [] kind = "arithmetic" -> num_arithmetic_columns
      [] kind = "extended" -> num_extended_columns

\* C25: when build() panics because a column budget is exceeded, the message
\* names the exceeded budget and reports the declared budget constant as the
\* "Expected" number and the number of columns allocated as the "got" number
C25_PanicMessage ==
    b_pc = "panicked" =>
        /\ b_panic.budget \in {"free", "arithmetic", "extended"}
        /\ AllocatedColumns(b_panic.budget) > DeclaredBudget(b_panic.budget)
        /\ b_panic.expected = DeclaredBudget(b_panic.budget)
        /\ b_panic.got = AllocatedColumns(b_panic.budget)

\* C26: the prover, the native verifier and the recursive verifier feed their
\* challengers the same sequence: the public values, the main and the lookup
\* execution caps, the draw of num_challenges challenges, the global values,
\* the main and the lookup extended caps, the main proof's IOP challenges and
\* then the lookup proof's; the global values the prover observes are those
\* of the proof.
C26_ChallengerSequencesAgree ==
    es_pc = "proved" =>
        /\ es_challenger.prover =
                <<<<"observe_elements", es_input.public_values>>,
                  <<"observe_cap", es_proof.main_proof.trace_caps[1]>>,
                  <<"observe_cap", es_proof.lookup_proof.trace_caps[1]>>,
                  <<"get_n_challenges", es_input.num_challenges>>,
                  <<"observe_elements", es_commitment.main.global_values>>,
                  <<"observe_cap", es_proof.main_proof.trace_caps[2]>>,
                  <<"observe_cap", es_proof.lookup_proof.trace_caps[2]>>,
                  <<"iop", "main">>, <<"iop", "lookup">> >>
        /\ es_commitment.main.global_values = es_proof.global_values
        /\ es_challenger.native # <<>> => es_challenger.native = es_challenger.prover
        /\ es_challenger.recursive # <<>> => es_challenger.recursive = es_challenger.prover

C26_Witness ==
    /\ es_pc = "proved"
    /\ es_input.public_values # <<>>
    /\ es_proof.global_values = {"main", "lookup"}
    /\ es_challenger.native # <<>> /\ es_challenger.recursive # <<>>

\* C27: for every sum below B^num_limbs the wires written by the
\* BaseSplitGenerator make every constraint of the gate zero: the limbs are
\* the base-B digits of the sum, least significant first, the sum wire is the
\* limbs reduced with powers of B, and the reversed-sum wire is the reversed
\* limbs reduced with powers of B.
C27_BaseSplitSatisfiesGate ==
    bs_out # BsNone =>
        LET limbs == BsLimbs(bs_wires, bs_num_limbs)
        IN  /\ \A i \in 1 .. Len(bs_out) : bs_out[i] = 0
            /\ \A i \in 1 .. bs_num_limbs : limbs[i] \in 0 .. bs_B - 1
            /\ bs_wires[WIRE_SUM] = reduce_with_powers(limbs, bs_B)
            /\ bs_wires[WIRE_REVERSED_SUM] = reduce_with_powers(Reversed(limbs), bs_B)


\* the workers have all sent their rows and returned
ArAllSent == ar_pc # "idle" /\ \A i \in DOMAIN ar_worker : ar_worker[i] = "exited"

\* row i of the assembled trace is the row of program[i] followed by i
ArAssembled ==
    ar_pc = "done" =>
        /\ \A i \in DOMAIN ar_program :
                /\ ar_trace_rows[i] = Append(op_trace_row(ar_program[i]), from_canonical(i))
                /\ \A c \in 0 .. TABLE_INDEX : ar_trace_cols[c][i + 1] = ar_trace_rows[i][c + 1]
        /\ \A c \in 0 .. TABLE_INDEX : Len(ar_trace_cols[c]) = Cardinality(DOMAIN ar_program)

\* C28: in whatever order the workers deliver their (index, row) messages,
\* row i of the assembled trace is the row computed for program[i] followed
\* by the table value i, every entry is placed exactly once, and the receive
\* loop ends once all workers have sent their rows.
C28_RowsPlacedByIndex == [](ArAssembled) /\ (ArAllSent ~> ar_pc = "done")

\* the row of the last worker was delivered and placed before the first one's
C28_Witness ==
    /\ ar_pc = "receiving"
    /\ Cardinality(DOMAIN ar_program) = ArMaxOps
    /\ ar_program[0] # ar_program[ArMaxOps - 1]
    /\ ar_trace_rows[0] = <<>>
    /\ ar_trace_rows[ArMaxOps - 1] =
            Append(op_trace_row(ar_program[ArMaxOps - 1]), from_canonical(ArMaxOps - 1))

\* the terms 1 / (beta - value) of a sequence of looked-up values
LogDerivatives(values) ==
    [n \in 1 .. Len(values) |->
        CubicInverse(sub_extension(lk_beta, element_from_base_field(values[n])))]

\* C29: every register of the lookup's trace values contributes a term
\* 1 / (beta - value) to the accumulation write_log_lookup_values writes,
\* the last register of an odd number of registers included: the accumulated
\* values are the values write_multiplicities_from_fn counted.
C29_EveryRegisterAccumulated ==
    lk_pc = "values" =>
        LET looked == LookedUpValues(LkRows)
        IN  /\ \A i \in 0 .. LkRows - 1 :
                    lk_trace[i + 1].multiplicities[1] = CountOf(looked, Len(looked), i)
            /\ lk_trace[LkRows].log_lookup_accumulator = CubicSum(LogDerivatives(looked))
            /\ lk_digests.local = CubicSum(LogDerivatives(looked))

\* C30: in the ByteLookup bytes_lookup returns, two different bit operations
\* have result-bit arrays, carry bits and opcode registers on disjoint
\* columns.
C30_OpcodeRegistersDisjoint ==
    by_pc = "done" =>
        \A i, j \in 1 .. NUM_BIT_OPS :
            i # j =>
                /\ Columns(by_lookup.results_bits[i]) \cap Columns(by_lookup.results_bits[j]) = {}
                /\ Columns(by_lookup.carry_bits[i]) \cap Columns(by_lookup.carry_bits[j]) = {}
                /\ Columns(by_lookup.opcodes[i]) \cap Columns(by_lookup.opcodes[j]) = {}

----------------------------------------------------------------------------
(* Specifications. *)

EarlierIdle ==
    LimIdle /\ RqIdle /\ FpIdle /\ BIdle /\ LkIdle /\ SmIdle /\ AmIdle /\ ExIdle /\ GtIdle
    /\ FqIdle /\ EaIdle
RestIdle == ShIdle /\ MgIdle /\ BlIdle /\ EsIdle /\ BsIdle /\ ArIdle /\ ByIdle

InitLimbs == LimInit /\ RqIdle /\ FpIdle /\ BIdle /\ LkIdle /\ SmIdle /\ AmIdle /\ ExIdle /\ GtIdle
    /\ FqIdle /\ EaIdle /\ RestIdle
NextLimbs == LimConvert \/ LimReconstruct
SpecLimbs == InitLimbs /\ [][NextLimbs]_vars

InitRootQuotient == LimIdle /\ RqInit /\ FpIdle /\ BIdle /\ LkIdle /\ SmIdle /\ AmIdle /\ ExIdle /\ GtIdle
    /\ FqIdle /\ EaIdle /\ RestIdle
NextRootQuotient == RqCompute
SpecRootQuotient == InitRootQuotient /\ [][NextRootQuotient]_vars

InitFpAdd == LimIdle /\ RqIdle /\ FpInit /\ BIdle /\ LkIdle /\ SmIdle /\ AmIdle /\ ExIdle /\ GtIdle
    /\ FqIdle /\ EaIdle /\ RestIdle
NextFpAdd == FpWriteRow
SpecFpAdd == InitFpAdd /\ [][NextFpAdd]_vars

InitBuilder == LimIdle /\ RqIdle /\ FpIdle /\ BInit /\ LkIdle /\ SmIdle /\ AmIdle /\ ExIdle /\ GtIdle
    /\ FqIdle /\ EaIdle /\ RestIdle
NextBuilder ==
    \/ \E size \in 1 .. 2 : AllocFree(size, FALSE)
    \/ \E size \in 1 .. 2 : AllocArithmetic(size, FALSE)
    \/ \E size \in 1 .. 2 : AllocExtended(size, FALSE)
    \/ AllocGlobalArithmetic
    \/ RegisterInstruction
    \/ RegisterConstraint
    \/ DisableRangeCheck
    \/ Build
SpecBuilder == InitBuilder /\ [][NextBuilder]_vars

InitRegisters ==
    LimIdle /\ RqIdle /\ FpIdle /\ BInitRegisters /\ LkIdle /\ SmIdle /\ AmIdle /\ ExIdle /\ GtIdle
    /\ FqIdle /\ EaIdle /\ RestIdle
NextRegisters ==
    \/ \E size \in 1 .. 2 : AllocFree(size, TRUE)
    \/ \E size \in 1 .. NB_LIMBS : AllocArithmetic(size, TRUE)
    \/ \E size \in 1 .. 2 : AllocExtended(size, TRUE)
    \/ \E a \in 1 .. MaxColumns, b \in 1 .. MaxColumns : AllocFpAdd(a, b)
    \/ Build
SpecRegisters == InitRegisters /\ [][NextRegisters]_vars

InitLookup == LimIdle /\ RqIdle /\ FpIdle /\ BIdle /\ LkInit /\ SmIdle /\ AmIdle /\ ExIdle /\ GtIdle
    /\ FqIdle /\ EaIdle /\ RestIdle
NextLookup ==
    \/ LkWriteMultiplicities
    \/ LkWriteLogLookupTable
    \/ LkWriteLogLookupValues
    \/ LkProverFill
    \/ \E r \in 1 .. LkRows, j \in 1 .. LkValueRegisters, v \in AbsentValues : LkForge(r, j, v)
SpecLookup == InitLookup /\ [][NextLookup]_vars

InitMultiplicities == LimIdle /\ RqIdle /\ FpIdle /\ BIdle /\ LkInitMultiplicities /\ SmIdle /\ AmIdle /\ ExIdle /\ GtIdle
    /\ FqIdle /\ EaIdle /\ RestIdle
NextMultiplicities == LkWriteMultiplicities
SpecMultiplicities == InitMultiplicities /\ [][NextMultiplicities]_vars

InitScalarMul == LimIdle /\ RqIdle /\ FpIdle /\ BIdle /\ LkIdle /\ SmInit /\ AmIdle /\ ExIdle /\ GtIdle
    /\ FqIdle /\ EaIdle /\ RestIdle
NextScalarMul ==
    \/ \E k \in 0 .. SmCycles - 1, a \in 1 .. 2, scalar \in Scalars : SmStartCycle(k, a, scalar)
    \/ \E k \in 0 .. SmCycles - 1 : SmWriteRow(k)
SpecScalarMul == InitScalarMul /\ [][NextScalarMul]_vars

InitAddMod == LimIdle /\ RqIdle /\ FpIdle /\ BIdle /\ LkIdle /\ SmIdle /\ AmInit /\ ExIdle /\ GtIdle
    /\ FqIdle /\ EaIdle /\ RestIdle
NextAddMod == AmEvalPacked \/ AmEvalCircuit
SpecAddMod == InitAddMod /\ [][NextAddMod]_vars

InitExpression == LimIdle /\ RqIdle /\ FpIdle /\ BIdle /\ LkIdle /\ SmIdle /\ AmIdle /\ ExInit /\ GtIdle
    /\ FqIdle /\ EaIdle /\ RestIdle
NextExpression == ExEvaluate
SpecExpression == InitExpression /\ [][NextExpression]_vars

InitGenerateTrace ==
    LimIdle /\ RqIdle /\ FpIdle /\ BIdle /\ LkIdle /\ SmIdle /\ AmIdle /\ ExIdle /\ GtInit
    /\ FqIdle /\ EaIdle /\ RestIdle
NextGenerateTrace ==
    \/ GtObservePublic
    \/ GtGenerateExecutionTraces
    \/ GtCommit("main")
    \/ GtCommit("lookup")
    \/ GtObserveCap("main")
    \/ GtObserveCap("lookup")
    \/ GtGetChallenges
    \/ GtSaveChallenges("main")
    \/ GtSaveChallenges("lookup")
    \/ GtWriteExtended("main", "lookup")
    \/ GtWriteExtended("lookup", "main")
SpecGenerateTrace == InitGenerateTrace /\ [][NextGenerateTrace]_vars

InitFpQuad ==
    LimIdle /\ RqIdle /\ FpIdle /\ BIdle /\ LkIdle /\ SmIdle /\ AmIdle /\ ExIdle /\ GtIdle
    /\ FqInit /\ EaIdle /\ RestIdle
NextFpQuad == FqTraceRow
SpecFpQuad == InitFpQuad /\ [][NextFpQuad]_vars

InitEdAdd ==
    LimIdle /\ RqIdle /\ FpIdle /\ BIdle /\ LkIdle /\ SmIdle /\ AmIdle /\ ExIdle /\ GtIdle
    /\ FqIdle /\ EaInit /\ RestIdle
NextEdAdd == EaWrite \/ EaEval
SpecEdAdd == InitEdAdd /\ [][NextEdAdd]_vars

InitShr == EarlierIdle /\ ShInit /\ MgIdle /\ BlIdle /\ EsIdle /\ BsIdle /\ ArIdle /\ ByIdle
NextShr == ShWriteRow
SpecShr == InitShr /\ [][NextShr]_vars

InitMulGate == EarlierIdle /\ ShIdle /\ MgInit /\ BlIdle /\ EsIdle /\ BsIdle /\ ArIdle /\ ByIdle
NextMulGate ==
    \/ \E i \in 0 .. MgMaxOps - 1 : MgRunOnce(i)
    \/ MgEvalUnfiltered
    \/ MgEvalBaseOne
    \/ MgEvalCircuit
SpecMulGate == InitMulGate /\ [][NextMulGate]_vars

InitBits == EarlierIdle /\ ShIdle /\ MgIdle /\ BlInit /\ EsIdle /\ BsIdle /\ ArIdle /\ ByIdle
NextBits == BlConvert
SpecBits == InitBits /\ [][NextBits]_vars

InitStark == EarlierIdle /\ ShIdle /\ MgIdle /\ BlIdle /\ EsInit /\ BsIdle /\ ArIdle /\ ByIdle
NextStark ==
    \/ EsGenerateTrace
    \/ EsProveMain
    \/ EsProveLookup
    \/ EsGetChallenges
    \/ EsGetChallengesTarget
SpecStark == InitStark /\ [][NextStark]_vars

InitBaseSum == EarlierIdle /\ ShIdle /\ MgIdle /\ BlIdle /\ EsIdle /\ BsInit /\ ArIdle /\ ByIdle
NextBaseSum ==
    \/ BsRunOnce
    \/ BsEvalUnfiltered
SpecBaseSum == InitBaseSum /\ [][NextBaseSum]_vars

InitArithmetic == EarlierIdle /\ ShIdle /\ MgIdle /\ BlIdle /\ EsIdle /\ BsIdle /\ ArInit /\ ByIdle
NextArithmetic ==
    \/ ArSpawn
    \/ ArDropTx
    \/ \E i \in 0 .. ArMaxOps - 1 : ArWorkerSend(i)
    \/ \E i \in 0 .. ArMaxOps - 1 : ArWorkerExit(i)
    \/ ArRecv
    \/ ArRecvDisconnected
\* the main thread and the spawned workers keep running
SpecArithmetic == InitArithmetic /\ [][NextArithmetic]_vars /\ WF_vars(NextArithmetic)

InitLookupRegisters ==
    LimIdle /\ RqIdle /\ FpIdle /\ BIdle /\ LkInitRegisters /\ SmIdle /\ AmIdle /\ ExIdle /\ GtIdle
    /\ FqIdle /\ EaIdle /\ RestIdle
NextLookupRegisters ==
    \/ LkWriteMultiplicities
    \/ LkWriteLogLookupTable
    \/ LkWriteLogLookupValues
SpecLookupRegisters == InitLookupRegisters /\ [][NextLookupRegisters]_vars

InitBytesLookup ==
    EarlierIdle /\ ShIdle /\ MgIdle /\ BlIdle /\ EsIdle /\ BsIdle /\ ArIdle /\ ByInit
NextBytesLookup ==
    \/ ByAlloc
    \/ ByAccumulate
SpecBytesLookup == InitBytesLookup /\ [][NextBytesLookup]_vars

====
